---- MODULE Spec2Model ----
(***************************************************************************)
(* A model of the optimisation engine of tsi: Problem validation, the      *)
(* closed-form two-stage optimizer, the grid-search optimizer with its     *)
(* parallel workers, the Monte Carlo runner with its parameter sampler and *)
(* parallel samples, and the arithmetic of stages and rockets they use.    *)
(*                                                                         *)
(* Arithmetic.  The program computes in f64; the model computes in fixed   *)
(* point, rounding every division to the nearest unit:                     *)
(*   mass      in units of 100 kg                                          *)
(*   thrust    in kN                                                       *)
(*   velocity  in m/s                                                      *)
(*   Isp       in s                                                        *)
(*   ratios (mass ratio)            in thousandths  (RatioScale)           *)
(*   thrust-to-weight ratios        in hundredths   (TwrScale)             *)
(*   structural ratio               in hundredths   (EpsScale)             *)
(*   natural logarithms             in hundredths   (LnScale)              *)
(* exp and ln are the table ExpTab and its inverse, so that a round trip   *)
(* through them loses what a rounded computation loses.                    *)
(***************************************************************************)
EXTENDS Integers, Sequences, FiniteSets, TLC

\* ------------------------------------------------------------------------
\* Fixed-point scales and program constants
\* ------------------------------------------------------------------------

\* physics::G0 = 9.80665 m/s^2, in hundredths
G0 == 981

RatioScale == 1000
TwrScale == 100
EpsScale == 100
LnScale == 100

\* f64 NaN: every ordered comparison with it is false
NaN == 0 - 1000000

\* a / b rounded to the nearest integer (b > 0, a >= 0)
FDiv(a, b) == (a + (b \div 2)) \div b

\* f64 comparisons: false as soon as one side is NaN
FLe(a, b) == a # NaN /\ b # NaN /\ a <= b
FLt(a, b) == a # NaN /\ b # NaN /\ a < b
FGe(a, b) == a # NaN /\ b # NaN /\ a >= b

\* round(1000 * exp(k / 100)) for k = 0 .. MaxLnArg, indexed from 1
ExpTab ==
   << 
      1000, 1010, 1020, 1030, 1041, 1051, 1062, 1073, 1083, 1094, 1105, 1116,
      1127, 1139, 1150, 1162, 1174, 1185, 1197, 1209, 1221, 1234, 1246, 1259,
      1271, 1284, 1297, 1310, 1323, 1336, 1350, 1363, 1377, 1391, 1405, 1419,
      1433, 1448, 1462, 1477, 1492, 1507, 1522, 1537, 1553, 1568, 1584, 1600,
      1616, 1632, 1649, 1665, 1682, 1699, 1716, 1733, 1751, 1768, 1786, 1804,
      1822, 1840, 1859, 1878, 1896, 1916, 1935, 1954, 1974, 1994, 2014, 2034,
      2054, 2075, 2096, 2117, 2138, 2160, 2181, 2203, 2226, 2248, 2270, 2293,
      2316, 2340, 2363, 2387, 2411, 2435, 2460, 2484, 2509, 2535, 2560, 2586,
      2612, 2638, 2664, 2691, 2718, 2746, 2773, 2801, 2829, 2858, 2886, 2915,
      2945, 2974, 3004, 3034, 3065, 3096, 3127, 3158, 3190, 3222, 3254, 3287,
      3320, 3353, 3387, 3421, 3456, 3490, 3525, 3561, 3597, 3633, 3669, 3706,
      3743, 3781, 3819, 3857, 3896, 3935, 3975, 4015, 4055, 4096, 4137, 4179,
      4221, 4263, 4306, 4349, 4393, 4437, 4482, 4527, 4572, 4618, 4665, 4711,
      4759, 4807, 4855, 4904, 4953, 5003, 5053, 5104, 5155, 5207, 5259, 5312,
      5366, 5419, 5474, 5529, 5585, 5641, 5697, 5755, 5812, 5871, 5930, 5989,
      6050, 6110, 6172, 6234, 6297, 6360, 6424, 6488, 6554, 6619, 6686, 6753,
      6821, 6890, 6959, 7029, 7099, 7171, 7243, 7316, 7389, 7463, 7538, 7614,
      7691, 7768, 7846, 7925, 8004, 8085, 8166, 8248, 8331, 8415, 8499, 8585,
      8671, 8758, 8846, 8935, 9025, 9116, 9207, 9300, 9393, 9488, 9583, 9679,
      9777, 9875, 9974, 10074, 10176, 10278, 10381, 10486, 10591, 10697, 10805, 10913,
      11023, 11134, 11246, 11359, 11473, 11588, 11705, 11822, 11941, 12061, 12182, 12305,
      12429, 12554, 12680, 12807, 12936, 13066, 13197, 13330, 13464, 13599, 13736, 13874,
      14013, 14154, 14296, 14440, 14585, 14732, 14880, 15029, 15180, 15333, 15487, 15643,
      15800, 15959, 16119, 16281, 16445, 16610, 16777, 16945, 17116, 17288, 17462, 17637,
      17814, 17993, 18174, 18357, 18541, 18728, 18916, 19106, 19298, 19492, 19688, 19886,
      20086
   >>

\* the largest argument of exp the table holds, in hundredths
MaxLnArg == Len(ExpTab) - 1

\* f64::exp of x hundredths, in thousandths; arguments beyond the table
\* saturate at its last entry, and exp(-x) = 1 / exp(x)
Exp(x) == IF x < 0 - MaxLnArg THEN FDiv(RatioScale * RatioScale, ExpTab[MaxLnArg + 1])
          ELSE IF x < 0 THEN FDiv(RatioScale * RatioScale, ExpTab[1 - x])
          ELSE IF x > MaxLnArg THEN ExpTab[MaxLnArg + 1]
          ELSE ExpTab[x + 1]

\* f64::ln of a ratio r >= 1 (in thousandths), in hundredths: the largest
\* k with exp(k) <= r
Ln(r) == IF r >= ExpTab[MaxLnArg + 1] THEN MaxLnArg
         ELSE CHOOSE k \in 0 .. (MaxLnArg - 1) :
                 ExpTab[k + 1] <= r /\ r < ExpTab[k + 2]

\* ------------------------------------------------------------------------
\* Physics kernel
\* ------------------------------------------------------------------------

\* physics::delta_v: isp * G0 * ln(mass_ratio), in m/s
delta_v(isp, mass_ratio) == FDiv(isp * G0 * Ln(mass_ratio), 100 * LnScale)

\* physics::required_mass_ratio: exp(dv / (isp * G0)), in thousandths
\* (NaN when an argument is NaN)
required_mass_ratio(dv, isp) ==
   IF dv = NaN \/ isp = NaN THEN NaN
   ELSE Exp(FDiv(dv * 100 * LnScale, isp * G0))

\* physics::twr: thrust / (mass * gravity), in hundredths
\* (kN -> N is * 1000, mass unit -> kg is * 100, G0 is in hundredths)
twr(thrust, mass, gravity) == FDiv(thrust * 1000 * TwrScale, mass * gravity)

\* ------------------------------------------------------------------------
\* Stage
\* ------------------------------------------------------------------------

\* Stage::new
Stage_new(engine, engine_count, propellant_mass, structural_mass) ==
   [engine |-> engine, engine_count |-> engine_count,
    propellant_mass |-> propellant_mass, structural_mass |-> structural_mass]

\* Stage::with_structural_ratio (structural_ratio in hundredths)
with_structural_ratio(engine, engine_count, propellant_mass, structural_ratio) ==
   Stage_new(engine, engine_count, propellant_mass,
             FDiv(propellant_mass * structural_ratio, EpsScale))

engine_mass(stage) == stage.engine.dry_mass * stage.engine_count
dry_mass(stage) == stage.structural_mass + engine_mass(stage)
wet_mass(stage) == dry_mass(stage) + stage.propellant_mass
thrust_vac(stage) == stage.engine.thrust_vac * stage.engine_count
thrust_sl(stage) == stage.engine.thrust_sl * stage.engine_count

\* Stage::delta_v_with_payload
delta_v_with_payload(stage, payload) ==
   LET wet == wet_mass(stage) + payload
       dry == dry_mass(stage) + payload
       ratio == FDiv(wet * RatioScale, dry)
   IN  delta_v(stage.engine.isp_vac, ratio)

\* Stage::twr_vac_with_payload
twr_vac_with_payload(stage, payload) ==
   twr(thrust_vac(stage), wet_mass(stage) + payload, G0)

\* ------------------------------------------------------------------------
\* Rocket: stages bottom to top (index 1 = first stage), and a payload
\* ------------------------------------------------------------------------

Rocket_new(stages, payload) == [stages |-> stages, payload |-> payload]

RECURSIVE SumWet(_, _, _)
\* the wet masses of stages[from .. to], added up
SumWet(stages, from, to) ==
   IF from > to THEN 0
   ELSE wet_mass(stages[from]) + SumWet(stages, from + 1, to)

\* Rocket::mass_above_stage
mass_above_stage(rocket, i) ==
   rocket.payload + SumWet(rocket.stages, i + 1, Len(rocket.stages))

\* Rocket::total_mass
total_mass(rocket) ==
   rocket.payload + SumWet(rocket.stages, 1, Len(rocket.stages))

\* Rocket::stage_delta_v
stage_delta_v(rocket, i) ==
   delta_v_with_payload(rocket.stages[i], mass_above_stage(rocket, i))

RECURSIVE SumDeltaV(_, _)
SumDeltaV(rocket, i) ==
   IF i > Len(rocket.stages) THEN 0
   ELSE stage_delta_v(rocket, i) + SumDeltaV(rocket, i + 1)

\* Rocket::total_delta_v
total_delta_v(rocket) == SumDeltaV(rocket, 1)

\* Rocket::liftoff_twr: stage-0 sea-level thrust against the total wet mass
liftoff_twr(rocket) == twr(thrust_sl(rocket.stages[1]), total_mass(rocket), G0)

\* Rocket::stage_twr: vacuum thrust at ignition, carrying everything above
stage_twr(rocket, i) ==
   twr_vac_with_payload(rocket.stages[i], mass_above_stage(rocket, i))

\* Rocket::validate_twr: TRUE for Ok
validate_twr(rocket, min_twr, require_liftoff) ==
   /\ require_liftoff => ~(liftoff_twr(rocket) < 1 * TwrScale)
   /\ \A i \in 1 .. Len(rocket.stages) : ~(stage_twr(rocket, i) < min_twr)

\* the loop of validate_twr over the stages from i on (zero-based in the
\* error, as in the program)
RECURSIVE check_each_stage(_, _, _)
check_each_stage(rocket, min_twr, i) ==
   IF i > Len(rocket.stages) THEN [kind |-> "Ok"]
   ELSE IF stage_twr(rocket, i) < min_twr
        THEN [kind |-> "InsufficientStageTwr", stage |-> i - 1,
              twr |-> stage_twr(rocket, i), required |-> min_twr]
        ELSE check_each_stage(rocket, min_twr, i + 1)

\* validate_twr testing the first stage against min_twr with its sea-level
\* thrust when liftoff is required
validate_twr_result_sea_level(rocket, min_twr, require_liftoff) ==
   IF require_liftoff /\ liftoff_twr(rocket) < 1 * TwrScale
   THEN [kind |-> "InsufficientLiftoff", twr |-> liftoff_twr(rocket),
         required |-> 1 * TwrScale]
   ELSE IF require_liftoff /\ liftoff_twr(rocket) < min_twr
   THEN [kind |-> "InsufficientStageTwr", stage |-> 0,
         twr |-> liftoff_twr(rocket), required |-> min_twr]
   ELSE check_each_stage(rocket, min_twr, IF require_liftoff THEN 2 ELSE 1)

\* Rocket::validate_twr: the Result it returns
validate_twr_result(rocket, min_twr, require_liftoff) ==
   IF require_liftoff /\ liftoff_twr(rocket) < 1 * TwrScale
   THEN [kind |-> "InsufficientLiftoff", twr |-> liftoff_twr(rocket),
         required |-> 1 * TwrScale]
   ELSE check_each_stage(rocket, min_twr, 1)

\* ------------------------------------------------------------------------
\* Problem and Constraints
\* ------------------------------------------------------------------------

\* Option<u32>::None, outside the range of u32
None == 0 - 1

\* Constraints::validate: TRUE for Ok
Constraints_validate(c) ==
   /\ ~FLt(c.min_liftoff_twr, 1 * TwrScale)
   /\ ~FLe(c.min_stage_twr, 0)
   /\ ~(c.max_stages = 0)
   /\ ~(FLe(c.structural_ratio, 0) \/ FGe(c.structural_ratio, 1 * EpsScale))

\* Problem::is_valid: TRUE for Ok
is_valid(p) ==
   /\ ~FLe(p.payload, 0)
   /\ ~FLe(p.target_delta_v, 0)
   /\ ~(Len(p.available_engines) = 0)
   /\ (p.stage_count # None =>
         ~(p.stage_count = 0 \/ p.stage_count > p.constraints.max_stages))
   /\ Constraints_validate(p.constraints)

\* Problem::is_single_engine
is_single_engine(p) == Len(p.available_engines) = 1

\* Problem::single_engine (called only when there is one)
single_engine(p) == p.available_engines[1]

\* Solution::new: the rocket with its margin over the target
Solution_new(rocket, target_dv, iterations) ==
   [rocket |-> rocket,
    margin |-> total_delta_v(rocket) - target_dv,
    iterations |-> iterations]

\* Solution::with_metadata: Solution::new plus the optimizer's name
Solution_with_metadata(rocket, target_dv, iterations, optimizer_name) ==
   [rocket |-> rocket,
    margin |-> total_delta_v(rocket) - target_dv,
    iterations |-> iterations,
    optimizer_name |-> optimizer_name]


\* ------------------------------------------------------------------------
\* Results of optimize(): Ok(Solution) or one of the OptimizeError variants
\* ------------------------------------------------------------------------

Ok(solution) == [kind |-> "Ok", solution |-> solution]
InvalidProblem == [kind |-> "InvalidProblem"]
Infeasible == [kind |-> "Infeasible"]
Unsupported == [kind |-> "Unsupported"]
Pending == [kind |-> "Pending"]

\* ------------------------------------------------------------------------
\* Analytical optimizer: the closed-form solve and the engine count search
\* ------------------------------------------------------------------------

\* a mass above which no stage of the modelled engines can meet any minimum
\* TWR; the closed-form propellant saturates there instead of overflowing
MassCap == 100000

\* the 2% margin added to the target: target * 1.02
target_with_margin(target_delta_v) == FDiv(target_delta_v * 102, 100)

\* the inflated target handed whole to each stage
dv_per_stage_whole(target_delta_v) == target_with_margin(target_delta_v)

\* the equal split of the inflated target between the two stages
dv_per_stage(target_delta_v) == FDiv(target_with_margin(target_delta_v), 2)

\* AnalyticalOptimizer::calculate_stage_propellant: Err(Infeasible) or
\* Ok(propellant) with propellant = fixed_mass * (R - 1) / (1 + eps * (1 - R))
calculate_stage_propellant(target_dv, engine, engine_count, structural_ratio, payload_above) ==
   LET r == required_mass_ratio(target_dv, engine.isp_vac)
       fixed_mass ==
          IF engine.dry_mass = NaN \/ payload_above = NaN THEN NaN
          ELSE engine.dry_mass * engine_count + payload_above
       \* 1 + eps * (1 - r), in units of 1 / (RatioScale * EpsScale)
       denominator ==
          IF structural_ratio = NaN \/ r = NaN THEN NaN
          ELSE RatioScale * EpsScale + structural_ratio * (RatioScale - r)
       \* (r - 1) / denominator, in thousandths
       quotient == FDiv((r - RatioScale) * EpsScale * RatioScale, denominator)
       \* numerator / denominator: NaN when an operand is NaN
       propellant_mass ==
          IF fixed_mass = NaN \/ denominator = NaN THEN NaN
          ELSE IF quotient > (MassCap * RatioScale) \div fixed_mass
          THEN MassCap
          ELSE FDiv(fixed_mass * quotient, RatioScale)
   IN  IF FLt(r, 1 * RatioScale) THEN [err |-> TRUE, mass |-> 0]
       ELSE IF FLe(denominator, 0) THEN [err |-> TRUE, mass |-> 0]
       ELSE IF FLe(propellant_mass, 0) THEN [err |-> TRUE, mass |-> 0]
       ELSE [err |-> FALSE, mass |-> propellant_mass]

\* the TWR of the stage weighed alone, without what it carries
CountTwr_alone(engine, count, propellant_mass, structural_ratio, payload_above, is_first_stage) ==
   LET stage == with_structural_ratio(engine, count, propellant_mass,
                                      structural_ratio)
       thrust == IF is_first_stage THEN thrust_sl(stage) ELSE thrust_vac(stage)
   IN  FDiv(thrust * 1000 * TwrScale, wet_mass(stage) * G0)

\* the TWR determine_engine_count computes for one engine count
CountTwr(engine, count, propellant_mass, structural_ratio, payload_above, is_first_stage) ==
   LET stage == with_structural_ratio(engine, count, propellant_mass,
                                      structural_ratio)
       total == wet_mass(stage) + payload_above
       thrust == IF is_first_stage THEN thrust_sl(stage) ELSE thrust_vac(stage)
   IN  FDiv(thrust * 1000 * TwrScale, total * G0)

\* a variant that tries one engine more than max_engines
determine_engine_count_one_more(engine, propellant_mass, structural_ratio, payload_above, min_twr, max_engines, is_first_stage) ==
   LET ok == { c \in 1 .. max_engines + 1 :
                 CountTwr(engine, c, propellant_mass, structural_ratio,
                          payload_above, is_first_stage) >= min_twr }
   IN  IF ok = {} THEN 0
       ELSE CHOOSE c \in ok : \A d \in ok : c <= d

\* AnalyticalOptimizer::determine_engine_count: the first count in
\* 1 ..= max_engines whose TWR reaches min_twr, 0 for Err(Infeasible)
determine_engine_count(engine, propellant_mass, structural_ratio, payload_above, min_twr, max_engines, is_first_stage) ==
   LET ok == { c \in 1 .. max_engines :
                 CountTwr(engine, c, propellant_mass, structural_ratio,
                          payload_above, is_first_stage) >= min_twr }
   IN  IF ok = {} THEN 0
       ELSE CHOOSE c \in ok : \A d \in ok : c <= d


\* ------------------------------------------------------------------------
\* Brute-force optimizer: configuration (BruteForceOptimizer::new)
\* ------------------------------------------------------------------------

\* propellant steps per stage of the coarse search
coarse_steps == 2

\* propellant steps of the refinement: propellant_steps / 2 + 1
fine_steps == coarse_steps \div 2 + 1

\* the propellant bounds of the search, in units of 100 kg
min_propellant_kg == 200
max_propellant_kg == 1406

\* prefer_vacuum_upper, set by new()
prefer_vacuum_upper == TRUE

\* BruteForceOptimizer::propellant_grid: steps values from min_kg to max_kg,
\* logarithmically spaced: exp(ln(min) + i * (ln(max) - ln(min)) / (steps - 1))
propellant_grid(steps, min_kg, max_kg) ==
   IF steps = 1 THEN << FDiv(min_kg + max_kg, 2) >>
   ELSE LET log_span == Ln(FDiv(max_kg * RatioScale, min_kg))
        IN  [ i \in 1 .. steps |->
                FDiv(min_kg * Exp(FDiv(log_span * (i - 1), steps - 1)),
                     RatioScale) ]

\* sea-level thrust per unit of engine mass, the first-stage ranking
SeaLevelThrustPerMass(e) == FDiv(e.thrust_sl * 1000, e.dry_mass)

\* the ranking of sort_by: thrust_sl / dry_mass for the first stage, vacuum
\* Isp for the upper stages
PreferenceKey(e, first) ==
   IF first THEN SeaLevelThrustPerMass(e) ELSE e.isp_vac

RECURSIVE InsertSorted(_, _, _)
\* x put into the descending sequence sorted, after the elements that do
\* not rank below it (sort_by is stable)
InsertSorted(sorted, x, first) ==
   IF sorted = << >> THEN << x >>
   ELSE IF PreferenceKey(Head(sorted), first) >= PreferenceKey(x, first)
        THEN << Head(sorted) >> \o InsertSorted(Tail(sorted), x, first)
        ELSE << x >> \o sorted

RECURSIVE SortDescending(_, _)
\* slice::sort_by with the descending comparison of the closure
SortDescending(seq, first) ==
   IF seq = << >> THEN << >>
   ELSE InsertSorted(SortDescending(SubSeq(seq, 1, Len(seq) - 1), first),
                     seq[Len(seq)], first)

\* BruteForceOptimizer::sort_engines_by_preference
first_stage_engines(engines) ==
   IF ~prefer_vacuum_upper THEN engines
   ELSE SortDescending(engines, TRUE)

upper_stage_engines(engines) ==
   IF ~prefer_vacuum_upper THEN engines
   ELSE SortDescending(engines, FALSE)

\* check_stage_twr with the stage weighed alone, without what it carries
check_stage_twr_alone(stage, payload_above, min_twr, use_sea_level) ==
   LET thrust == IF use_sea_level THEN thrust_sl(stage) ELSE thrust_vac(stage)
   IN  FDiv(thrust * 1000 * TwrScale, wet_mass(stage) * G0) >= min_twr

\* BruteForceOptimizer::check_stage_twr
check_stage_twr(stage, payload_above, min_twr, use_sea_level) ==
   LET total == wet_mass(stage) + payload_above
       thrust == IF use_sea_level THEN thrust_sl(stage) ELSE thrust_vac(stage)
   IN  FDiv(thrust * 1000 * TwrScale, total * G0) >= min_twr

\* the stage try_build_rocket builds from one StageSpec
SpecStage(spec, constraints) ==
   with_structural_ratio(spec.engine, spec.engine_count, spec.propellant_kg,
                         constraints.structural_ratio)

RECURSIVE BuildFromTop(_, _, _, _)
\* try_build_rocket's loop, from stage i down to the first: the stages
\* i .. 1 pass their TWR check carrying mass_above
BuildFromTop(stage_specs, i, mass_above, constraints) ==
   IF i = 0 THEN TRUE
   ELSE LET stage == SpecStage(stage_specs[i], constraints)
            min_twr == IF i = 1 THEN constraints.min_liftoff_twr
                       ELSE constraints.min_stage_twr
        IN  /\ check_stage_twr(stage, mass_above, min_twr, i = 1)
            /\ BuildFromTop(stage_specs, i - 1, mass_above + wet_mass(stage),
                            constraints)

\* BruteForceOptimizer::try_build_rocket: the rocket, or NoRocket when a
\* stage misses its TWR
NoRocket == [stages |-> << >>, payload |-> 0]

try_build_rocket(stage_specs, payload, constraints) ==
   IF BuildFromTop(stage_specs, Len(stage_specs), payload, constraints)
   THEN Rocket_new([ i \in 1 .. Len(stage_specs) |->
                       SpecStage(stage_specs[i], constraints) ], payload)
   ELSE NoRocket

\* the StageSpecs of one stage: every engine of the list, every engine
\* count, every propellant value, in the order of the nested loops
StageChoices(engines, max_engines, propellant_values) ==
   LET ne == Len(engines)
       np == Len(propellant_values)
   IN  [ k \in 1 .. (ne * max_engines * np) |->
           [engine |-> engines[((k - 1) \div (max_engines * np)) + 1],
            engine_count |-> (((k - 1) \div np) % max_engines) + 1,
            propellant_kg |-> propellant_values[((k - 1) % np) + 1]] ]

RECURSIVE Extend(_, _, _)
\* every prefix continued by every choice: prefixes outermost
Extend(prefixes, choices, i) ==
   IF i > Len(prefixes) THEN << >>
   ELSE [ k \in 1 .. Len(choices) |-> Append(prefixes[i], choices[k]) ]
        \o Extend(prefixes, choices, i + 1)

\* the first n elements of seq (Iterator::take)
Take(seq, n) == SubSeq(seq, 1, IF Len(seq) < n THEN Len(seq) ELSE n)

RECURSIVE generate_recursive(_, _, _, _, _)
\* BruteForceOptimizer::generate_recursive: the configurations of stages
\* current_stage .. total_stages appended to every prefix
generate_recursive(prefixes, total_stages, current_stage, p, propellant_values) ==
   IF current_stage > total_stages THEN prefixes
   ELSE LET engines == IF current_stage = 1
                       THEN first_stage_engines(p.available_engines)
                       ELSE upper_stage_engines(p.available_engines)
            choices == StageChoices(Take(engines, 3),
                                    p.constraints.max_engines_per_stage,
                                    propellant_values)
        IN  generate_recursive(Extend(prefixes, choices, 1), total_stages,
                               current_stage + 1, p, propellant_values)

\* BruteForceOptimizer::generate_configurations
generate_configurations(p, stage_count, propellant_values) ==
   generate_recursive(<< << >> >>, stage_count, 1, p, propellant_values)


\* the larger of two values (f64::max)
Max(a, b) == IF a >= b THEN a ELSE b

Min(a, b) == IF a <= b THEN a ELSE b

\* the refined propellant range around one stage of the coarse winner:
\* propellant -/+ 30 %, the lower end not below min_propellant_kg
refined_range(stage) ==
   LET prop == stage.propellant_mass
       range == FDiv(prop * 3, 10)
   IN  << Max(prop - range, min_propellant_kg), prop + range >>

RECURSIVE PushAlternatives(_, _, _)
\* the loop over alternatives: an engine is pushed when no engine of the
\* list carries its name
PushAlternatives(engines_to_try, alternatives, i) ==
   IF i > Len(alternatives) THEN engines_to_try
   ELSE LET alt == alternatives[i]
            known == \E k \in 1 .. Len(engines_to_try) :
                        engines_to_try[k].name = alt.name
        IN  PushAlternatives(IF known THEN engines_to_try
                             ELSE Append(engines_to_try, alt),
                             alternatives, i + 1)

\* the engines of one refined stage: the winner's engine and the top two of
\* the preference list
engines_to_try(base_engine, alternatives) ==
   PushAlternatives(<< base_engine >>, Take(alternatives, 2), 1)

RECURSIVE generate_refined_recursive(_, _, _, _, _)
\* BruteForceOptimizer::generate_refined_recursive
generate_refined_recursive(prefixes, total_stages, current_stage, p, stages) ==
   IF current_stage > total_stages THEN prefixes
   ELSE LET range == refined_range(stages[current_stage])
            propellant_values == propellant_grid(fine_steps, range[1], range[2])
            alternatives == IF current_stage = 1
                            THEN first_stage_engines(p.available_engines)
                            ELSE upper_stage_engines(p.available_engines)
            choices == StageChoices(
                          engines_to_try(stages[current_stage].engine,
                                         alternatives),
                          p.constraints.max_engines_per_stage,
                          propellant_values)
        IN  generate_refined_recursive(Extend(prefixes, choices, 1),
                                       total_stages, current_stage + 1, p,
                                       stages)

\* the configurations refine_around_solution hands to parallel_search
refine_configurations(p, best_rocket) ==
   generate_refined_recursive(<< << >> >>, Len(best_rocket.stages), 1, p,
                              best_rocket.stages)

\* the test of the parallel_search closure before the lock is taken: the
\* rocket was built and reaches the target delta-v
ReachesTarget(rocket, p) ==
   /\ rocket # NoRocket
   /\ FGe(total_delta_v(rocket), p.target_delta_v)


\* ------------------------------------------------------------------------
\* Inputs: engines, constraints and problems
\* ------------------------------------------------------------------------

\* Engine::new
Engine_new(name, thrust_sl_n, thrust_vac_n, isp_sl_s, isp_vac_s, dry_mass_kg, propellant) ==
   [name |-> name, thrust_sl |-> thrust_sl_n, thrust_vac |-> thrust_vac_n,
    isp_sl |-> isp_sl_s, isp_vac |-> isp_vac_s, dry_mass |-> dry_mass_kg,
    propellant |-> propellant]

\* engines of the kind the database holds (dry mass in 100 kg, thrust in kN,
\* Isp in s); a vacuum engine has no sea-level thrust
Raptor2 == Engine_new("Raptor-2", 2300, 2450, 327, 350, 16, "LoxCh4")

RaptorVacuum == Engine_new("Raptor-Vacuum", 0, 2550, 0, 380, 16, "LoxCh4")

Merlin1D == Engine_new("Merlin-1D", 845, 914, 282, 311, 5, "LoxRp1")

\* Constraints with the fields of the struct
Constraints_new(min_liftoff_twr, min_stage_twr, max_stages, max_engines_per_stage, structural_ratio) ==
   [min_liftoff_twr |-> min_liftoff_twr, min_stage_twr |-> min_stage_twr,
    max_stages |-> max_stages, max_engines_per_stage |-> max_engines_per_stage,
    structural_ratio |-> structural_ratio]

\* Problem::new followed by with_stage_count (None when it was not called)
Problem_new(payload, target_delta_v, available_engines, constraints, stage_count) ==
   [payload |-> payload, target_delta_v |-> target_delta_v,
    available_engines |-> available_engines, constraints |-> constraints,
    stage_count |-> stage_count]

\* an engine whose file gives a sea-level thrust and no sea-level Isp
NoSeaLevelIsp == Engine_new("No-Sea-Level-Isp", 2300, 2450, 0, 350, 16, "LoxCh4")

\* Engine::is_upper_stage_only
is_upper_stage_only(engine) == engine.thrust_sl = 0 \/ engine.isp_sl = 0

\* the engine lists of the problems
EngineLists ==
   { << >>, << Raptor2 >>, << Merlin1D >>, << Raptor2, RaptorVacuum >> }

\* payloads (100 kg) and target delta-vs (m/s), zero included; 104 m/s is a
\* target at the resolution of the arithmetic.  NaN is an input of is_valid
\* only (ValidationProblems): the optimizers' arithmetic is modelled on
\* numbers
Payloads == { 0, 50, 200 }
Targets == { 0, 104, 6000, 9000 }

\* fixed stage counts, None for a count that is not fixed
StageCounts == { None, 0, 1, 2, 3 }

\* constraints, the invalid ones included: a liftoff TWR below 1.0, a stage
\* TWR of 0, no stages, a structural ratio of 0 or 1
ConstraintSets ==
   { Constraints_new(l, s, m, e, r) :
        l \in { 120 }, s \in { 80 }, m \in { 1, 2 }, e \in { 1, 6 },
        r \in { 8 } }
   \cup { Constraints_new(90, 80, 2, 6, 8), Constraints_new(120, 0, 2, 6, 8),
          Constraints_new(120, 80, 0, 6, 8), Constraints_new(120, 80, 2, 6, 0),
          Constraints_new(120, 80, 2, 6, 100),
          Constraints_new(120, 80, 3, 6, 10) }

\* the problems handed to AnalyticalOptimizer::optimize
AnalyticalProblems ==
   { Problem_new(pay, dv, engines, c, n) :
        pay \in Payloads, dv \in Targets, engines \in EngineLists,
        c \in ConstraintSets, n \in StageCounts }
   \cup { Problem_new(50, 9000, << NoSeaLevelIsp >>,
                      Constraints_new(120, 80, 2, 6, 8), 2),
          Problem_new(50, 9000, << RaptorVacuum >>,
                      Constraints_new(120, 80, 2, 6, 8), 2) }

\* the constraints of the brute-force problems: one engine per stage
SearchConstraints == Constraints_new(120, 80, 2, 1, 8)

\* the problems handed to BruteForceOptimizer::optimize
BruteForceProblems ==
   { Problem_new(50, 9000, << Raptor2, RaptorVacuum >>, SearchConstraints, None),
     Problem_new(10, 3000, << NoSeaLevelIsp >>,
                 Constraints_new(120, 80, 2, 2, 8), 1),
     Problem_new(50, 7800, << Raptor2 >>, SearchConstraints, 2),
     Problem_new(50, 7400, << Raptor2 >>,
                 Constraints_new(120, 80, 2, 2, 8), 1),
     Problem_new(50, 12000, << Raptor2 >>, SearchConstraints, 2),
     Problem_new(50, 9000, << Raptor2 >>,
                 Constraints_new(150, 80, 2, 1, 8), 2),
     Problem_new(10, 3000, << Raptor2 >>,
                 Constraints_new(120, 80, 2, 2, 8), 1),
     Problem_new(0, 6000, << Raptor2 >>, SearchConstraints, 2),
     Problem_new(10, 6000, << >>, SearchConstraints, None),
     Problem_new(10, 6000, << Raptor2 >>, SearchConstraints, 3) }

\* the problems handed to MonteCarloRunner::run
MonteCarloProblems ==
   { Problem_new(50, 9000, << Raptor2 >>,
                 Constraints_new(120, 80, 2, 6, 8), 2),
     Problem_new(50, 9000, << Raptor2 >>,
                 Constraints_new(120, 80, 2, 1, 8), 2),
     Problem_new(10, 3000, << Raptor2 >>,
                 Constraints_new(120, 80, 2, 2, 8), 1),
     Problem_new(0, 9000, << Raptor2 >>,
                 Constraints_new(120, 80, 2, 6, 8), 2),
     Problem_new(50, 0, << Raptor2, RaptorVacuum >>,
                 Constraints_new(120, 80, 2, 6, 8), None),
     Problem_new(50, 9000, << >>, Constraints_new(120, 80, 2, 6, 8), 3),
     Problem_new(50, 201, << Raptor2 >>,
                 Constraints_new(120, 80, 2, 6, 8), 2) }

\* ------------------------------------------------------------------------
\* Uncertainty and ParameterSampler
\* ------------------------------------------------------------------------

\* Uncertainty::new (percentages, 1-sigma); note the order of its arguments
Uncertainty_new(isp_percent, structural_percent, thrust_percent) ==
   [isp_percent |-> isp_percent, thrust_percent |-> thrust_percent,
    structural_percent |-> structural_percent]

\* Uncertainty::none
Uncertainty_none ==
   [isp_percent |-> 0, thrust_percent |-> 0, structural_percent |-> 0]

\* Uncertainty::default
Uncertainty_default ==
   [isp_percent |-> 1, thrust_percent |-> 2, structural_percent |-> 5]

\* is_zero with its comparisons inverted
is_zero_inverted(u) ==
   u.isp_percent # 0 /\ u.thrust_percent # 0 /\ u.structural_percent # 0

\* Uncertainty::is_zero
is_zero(u) ==
   u.isp_percent = 0 /\ u.thrust_percent = 0 /\ u.structural_percent = 0

\* a factor is a multiple of 1/100
FactorScale == 100

\* how many standard deviations from the mean a drawn factor lies, at most
SigmaSpan == 3

\* ParameterSampler::sample_factor: a draw from N(1.0, percent / 100); the
\* draws of the model lie SigmaSpan deviations below and above the mean
sample_factor(percent) ==
   { FactorScale + z * percent : z \in { 0 - SigmaSpan, SigmaSpan } }

\* nominal * factor in f64, rounded to the unit of nominal; NaN stays NaN
Scaled(nominal, factor) ==
   IF nominal = NaN THEN NaN
   ELSE IF nominal * factor >= 0 THEN FDiv(nominal * factor, FactorScale)
   ELSE 0 - FDiv(0 - nominal * factor, FactorScale)

\* ParameterSampler::perturb_isp: the values it can return
perturb_isp(u, nominal) ==
   IF u.isp_percent = 0 THEN { nominal }
   ELSE { Scaled(nominal, f) : f \in sample_factor(u.isp_percent) }

\* ParameterSampler::perturb_thrust: the values it can return
perturb_thrust(u, nominal) ==
   IF u.thrust_percent = 0 THEN { nominal }
   ELSE { Scaled(nominal, f) : f \in sample_factor(u.thrust_percent) }

\* the range of the clamp of perturb_structural_ratio: 0.01 and 0.5
structural_ratio_floor == 1
structural_ratio_ceiling == 50

\* f64::clamp: NaN stays NaN
Clamp(x, lo, hi) ==
   IF x = NaN THEN NaN ELSE IF x < lo THEN lo ELSE IF x > hi THEN hi ELSE x

\* perturb_structural_ratio without the clamp
perturb_structural_ratio_unclamped(u, nominal) ==
   IF u.structural_percent = 0 THEN { nominal }
   ELSE { Scaled(nominal, f) : f \in sample_factor(u.structural_percent) }

\* ParameterSampler::perturb_structural_ratio: the values it can return
perturb_structural_ratio(u, nominal) ==
   IF u.structural_percent = 0 THEN { nominal }
   ELSE { Clamp(Scaled(nominal, f), structural_ratio_floor,
                structural_ratio_ceiling) :
             f \in sample_factor(u.structural_percent) }

\* perturb_engine perturbing the dry mass as well, as it does the thrust
perturb_engine_and_dry_mass(u, engine) ==
   { Engine_new(engine.name, thrust_sl_n, thrust_vac_n, isp_sl_s, isp_vac_s,
                dry_mass_kg, engine.propellant) :
        thrust_sl_n \in perturb_thrust(u, engine.thrust_sl),
        thrust_vac_n \in perturb_thrust(u, engine.thrust_vac),
        isp_sl_s \in perturb_isp(u, engine.isp_sl),
        isp_vac_s \in perturb_isp(u, engine.isp_vac),
        dry_mass_kg \in perturb_thrust(u, engine.dry_mass) }

\* ParameterSampler::perturb_engine: the engines it can return, each of the
\* four values with a draw of its own
perturb_engine(u, engine) ==
   { Engine_new(engine.name, thrust_sl_n, thrust_vac_n, isp_sl_s, isp_vac_s,
                engine.dry_mass, engine.propellant) :
        thrust_sl_n \in perturb_thrust(u, engine.thrust_sl),
        thrust_vac_n \in perturb_thrust(u, engine.thrust_vac),
        isp_sl_s \in perturb_isp(u, engine.isp_sl),
        isp_vac_s \in perturb_isp(u, engine.isp_vac) }

\* the perturbed problems built without the nominal stage count
perturbed_problem_unfixed(u, p) ==
   LET n == Len(p.available_engines)
       candidates == UNION { perturb_engine(u, p.available_engines[i]) :
                                i \in 1 .. n }
       perturbed_engines ==
          { engines \in [1 .. n -> candidates] :
               \A i \in 1 .. n :
                  engines[i] \in perturb_engine(u, p.available_engines[i]) }
       perturbed_structural ==
          perturb_structural_ratio(u, p.constraints.structural_ratio)
   IN  { [payload |-> p.payload,
          target_delta_v |-> p.target_delta_v,
          available_engines |-> engines,
          constraints |-> [p.constraints EXCEPT !.structural_ratio = ratio],
          stage_count |-> None] :
            engines \in perturbed_engines, ratio \in perturbed_structural }

\* the head of the closure of run(): the perturbed problems one sample can
\* build from the nominal problem
perturbed_problem(u, p) ==
   LET n == Len(p.available_engines)
       candidates == UNION { perturb_engine(u, p.available_engines[i]) :
                                i \in 1 .. n }
       perturbed_engines ==
          { engines \in [1 .. n -> candidates] :
               \A i \in 1 .. n :
                  engines[i] \in perturb_engine(u, p.available_engines[i]) }
       perturbed_structural ==
          perturb_structural_ratio(u, p.constraints.structural_ratio)
   IN  { [payload |-> p.payload,
          target_delta_v |-> p.target_delta_v,
          available_engines |-> engines,
          constraints |-> [p.constraints EXCEPT !.structural_ratio = ratio],
          stage_count |-> p.stage_count] :
            engines \in perturbed_engines, ratio \in perturbed_structural }

\* the runners of the model: built with no uncertainty, with an uncertainty
\* of the specific impulse alone, with an uncertainty of the structural
\* ratio and of the thrust, and with an uncertainty of the structural ratio
\* wide enough for draws below zero
Uncertainties ==
   { Uncertainty_none, Uncertainty_new(1, 0, 0), Uncertainty_new(0, 2, 5),
     Uncertainty_new(0, 40, 0) }

\* the largest iteration count passed to run()
MaxIterations == 2


\* ------------------------------------------------------------------------
\* State
\* ------------------------------------------------------------------------

VARIABLES
   entry,                \* the function called: an optimizer or the runner
   optimizer,            \* the optimizer running, "none" before the runner picks
   problem,              \* the Problem passed in
   pc,                   \* the position in the running function
   result,               \* what optimize() returned, Pending before
   run_result,           \* what MonteCarloRunner::run returned, Pending before
   stage2_engine_count,  \* analytical: locals of optimize()
   stage2_propellant,
   stage1_engine_count,
   stage1_propellant,
   best,                 \* brute force: optimize()'s best so far
   stage_count,          \* brute force: the stage count being searched
   configs,              \* brute force: the batch handed to parallel_search
   guard,                \* parallel_search: the record behind the mutex
   lock,                 \* parallel_search: the worker holding the mutex, 0 if free
   workers,              \* parallel_search: each worker's chunk and position
   progress_counter,     \* brute force: the atomic counter of evaluations
   searched,             \* brute force: the stage counts searched so far, in order
   uncertainty,          \* runner: the Uncertainty it was built with
   iterations,           \* runner: the iteration count passed to run()
   delta_v_samples,      \* run(): the Vec behind the first mutex
   mass_samples,         \* run(): the Vec behind the second mutex
   successes,            \* run(): the atomic counters
   failures,
   completed,
   samplers,             \* run(): each worker's range of samples and position
   args,                 \* the arguments of a function called on its own
   ret                   \* what that function returned

vars ==
   << entry, optimizer, problem, pc, result, run_result, stage2_engine_count,
      stage2_propellant, stage1_engine_count, stage1_propellant, best,
      stage_count, configs, guard, lock, workers, progress_counter, searched,
      uncertainty, iterations, delta_v_samples, mass_samples, successes,
      failures, completed, samplers, args, ret >>

analytical_vars ==
   << stage2_engine_count, stage2_propellant, stage1_engine_count,
      stage1_propellant >>

search_vars == << configs, guard, lock, workers >>

brute_force_vars == << best, stage_count, progress_counter >>

sampling_vars ==
   << delta_v_samples, mass_samples, successes, failures, completed, samplers >>

runner_vars == << uncertainty, iterations >>

call_vars == << args, ret >>

\* the worker threads of the pool
Workers == { 1, 2 }

\* Option<(Rocket, f64)>: None, and Some((rocket, total_mass))
NoBest == [some |-> FALSE, rocket |-> NoRocket, total_mass |-> 0]
SomeBest(rocket, mass) == [some |-> TRUE, rocket |-> rocket, total_mass |-> mass]

\* a worker with nothing to do
IdleWorker ==
   [pc |-> "done", next |-> 1, last |-> 0, rocket |-> NoRocket,
    total_mass |-> 0]

\* a worker of run() with no sample to take
IdleSampler ==
   [pc |-> "done", next |-> 1, last |-> 0, ok |-> FALSE, dv |-> 0, mass |-> 0]

\* run() has not started to sample: empty accumulators, counters at zero
NotSampling ==
   /\ delta_v_samples = << >>
   /\ mass_samples = << >>
   /\ successes = 0
   /\ failures = 0
   /\ completed = 0
   /\ samplers = [w \in Workers |-> IdleSampler]

\* no function is called on its own
NoCall == args = << >> /\ ret = << >>

Init ==
   /\ \/ /\ entry = "Analytical"
         /\ optimizer = "Analytical"
         /\ problem \in AnalyticalProblems
         /\ pc = "validate"
         /\ uncertainty = Uncertainty_none
         /\ iterations = 0
      \/ /\ entry = "BruteForce"
         /\ optimizer = "BruteForce"
         /\ problem \in BruteForceProblems
         /\ pc = "validate"
         /\ uncertainty = Uncertainty_none
         /\ iterations = 0
      \/ /\ entry = "MonteCarlo"
         /\ optimizer = "none"
         /\ problem \in MonteCarloProblems
         /\ pc = "run"
         /\ uncertainty \in Uncertainties
         /\ iterations \in 0 .. MaxIterations
   /\ result = Pending
   /\ run_result = Pending
   /\ stage2_engine_count = 0
   /\ stage2_propellant = 0
   /\ stage1_engine_count = 0
   /\ stage1_propellant = 0
   /\ best = NoBest
   /\ stage_count = 0
   /\ configs = << >>
   /\ guard = NoBest
   /\ lock = 0
   /\ workers = [w \in Workers |-> IdleWorker]
   /\ progress_counter = 0
   /\ searched = << >>
   /\ NotSampling
   /\ NoCall

\* optimize() returns r
Return(r) ==
   /\ result' = r
   /\ pc' = "returned"

\* ------------------------------------------------------------------------
\* AnalyticalOptimizer::optimize
\* ------------------------------------------------------------------------

\* the stage count optimize() takes for a problem that fixes none
analytical_stage_count_any(p) == 2

\* problem.stage_count.unwrap_or(2)
analytical_stage_count(p) ==
   IF p.stage_count = None THEN 2 ELSE p.stage_count

\* the checks of the head of optimize() with the shape looked at first
analytical_precheck_shape_first(p) ==
   IF ~is_single_engine(p) THEN "Unsupported"
   ELSE IF analytical_stage_count(p) # 2 THEN "Unsupported"
   ELSE IF ~is_valid(p) THEN "InvalidProblem"
   ELSE "Solve"

\* the checks at the head of optimize(): validity first, then one engine,
\* then two stages
analytical_precheck(p) ==
   IF ~is_valid(p) THEN "InvalidProblem"
   ELSE IF ~is_single_engine(p) THEN "Unsupported"
   ELSE IF analytical_stage_count(p) # 2 THEN "Unsupported"
   ELSE "Solve"

\* the head of optimize(): an error is returned, or the upper stage's loop is
\* entered with one engine
AnalyticalStart ==
   /\ optimizer = "Analytical"
   /\ pc = "validate"
   /\ LET check == analytical_precheck(problem)
      IN  IF check = "InvalidProblem" THEN
             Return(InvalidProblem) /\ UNCHANGED analytical_vars
          ELSE IF check = "Unsupported" THEN
             Return(Unsupported) /\ UNCHANGED analytical_vars
          ELSE
             /\ pc' = "stage2"
             /\ stage2_engine_count' = 1
             /\ UNCHANGED << result, stage2_propellant, stage1_engine_count,
                             stage1_propellant >>
   /\ UNCHANGED << entry, optimizer, problem, run_result >>
   /\ UNCHANGED brute_force_vars
   /\ UNCHANGED search_vars
   /\ UNCHANGED searched
   /\ UNCHANGED runner_vars
   /\ UNCHANGED sampling_vars
   /\ UNCHANGED call_vars

\* one iteration of the upper stage's loop
AnalyticalStage2 ==
   /\ optimizer = "Analytical"
   /\ pc = "stage2"
   /\ LET c == problem.constraints
          engine == single_engine(problem)
          solved ==
             calculate_stage_propellant(dv_per_stage(problem.target_delta_v),
                engine, stage2_engine_count, c.structural_ratio,
                problem.payload)
      IN  \E propellant \in { solved } :
          \E needed_engines \in {
             determine_engine_count(engine, propellant.mass,
                c.structural_ratio, problem.payload, c.min_stage_twr,
                c.max_engines_per_stage, FALSE) } :
          IF propellant.err THEN
             Return(Infeasible) /\ UNCHANGED analytical_vars
          ELSE IF needed_engines = 0 THEN
             /\ Return(Infeasible)
             /\ stage2_propellant' = propellant.mass
             /\ UNCHANGED << stage2_engine_count, stage1_engine_count,
                             stage1_propellant >>
          ELSE IF needed_engines = stage2_engine_count THEN
             /\ pc' = "stage1"
             /\ stage2_propellant' = propellant.mass
             /\ stage1_engine_count' = 1
             /\ UNCHANGED << result, stage2_engine_count, stage1_propellant >>
          ELSE
             /\ stage2_propellant' = propellant.mass
             /\ stage2_engine_count' = needed_engines
             /\ UNCHANGED << pc, result, stage1_engine_count,
                             stage1_propellant >>
   /\ UNCHANGED << entry, optimizer, problem, run_result >>
   /\ UNCHANGED brute_force_vars
   /\ UNCHANGED search_vars
   /\ UNCHANGED searched
   /\ UNCHANGED runner_vars
   /\ UNCHANGED sampling_vars
   /\ UNCHANGED call_vars


\* the upper stage optimize() builds once its loop has ended
stage2 ==
   with_structural_ratio(single_engine(problem), stage2_engine_count,
                         stage2_propellant, problem.constraints.structural_ratio)

\* what the first stage carries: the upper stage and the payload
payload_above_stage1 == wet_mass(stage2) + problem.payload

\* one iteration of the first stage's loop
AnalyticalStage1 ==
   /\ optimizer = "Analytical"
   /\ pc = "stage1"
   /\ LET c == problem.constraints
          engine == single_engine(problem)
          solved ==
             calculate_stage_propellant(dv_per_stage(problem.target_delta_v),
                engine, stage1_engine_count, c.structural_ratio,
                payload_above_stage1)
      IN  \E propellant \in { solved } :
          \E needed_engines \in {
             determine_engine_count(engine, propellant.mass,
                c.structural_ratio, payload_above_stage1, c.min_liftoff_twr,
                c.max_engines_per_stage, TRUE) } :
          IF propellant.err THEN
             Return(Infeasible) /\ UNCHANGED analytical_vars
          ELSE IF needed_engines = 0 THEN
             /\ Return(Infeasible)
             /\ stage1_propellant' = propellant.mass
             /\ UNCHANGED << stage2_engine_count, stage2_propellant,
                             stage1_engine_count >>
          ELSE IF needed_engines = stage1_engine_count THEN
             /\ pc' = "assemble"
             /\ stage1_propellant' = propellant.mass
             /\ UNCHANGED << result, stage2_engine_count, stage2_propellant,
                             stage1_engine_count >>
          ELSE
             /\ stage1_propellant' = propellant.mass
             /\ stage1_engine_count' = needed_engines
             /\ UNCHANGED << pc, result, stage2_engine_count,
                             stage2_propellant >>
   /\ UNCHANGED << entry, optimizer, problem, run_result >>
   /\ UNCHANGED brute_force_vars
   /\ UNCHANGED search_vars
   /\ UNCHANGED searched
   /\ UNCHANGED runner_vars
   /\ UNCHANGED sampling_vars
   /\ UNCHANGED call_vars

\* the first stage optimize() builds once its loop has ended
stage1 ==
   with_structural_ratio(single_engine(problem), stage1_engine_count,
                         stage1_propellant, problem.constraints.structural_ratio)

\* the margin below which optimize() does not return the solution: -1.0 m/s
margin_tolerance == 0 - 1

\* the tail of optimize(): the rocket, its TWR validation, the solution and
\* the check of its margin
AnalyticalAssemble ==
   /\ optimizer = "Analytical"
   /\ pc = "assemble"
   /\ LET rocket == Rocket_new(<< stage1, stage2 >>, problem.payload)
          solution == Solution_with_metadata(rocket, problem.target_delta_v,
                                             1, "Analytical")
      IN  IF ~validate_twr(rocket, problem.constraints.min_stage_twr, TRUE)
          THEN Return(Infeasible)
          ELSE IF solution.margin < margin_tolerance
          THEN Return(Infeasible)
          ELSE Return(Ok(solution))
   /\ UNCHANGED << entry, optimizer, problem, run_result >>
   /\ UNCHANGED analytical_vars
   /\ UNCHANGED brute_force_vars
   /\ UNCHANGED search_vars
   /\ UNCHANGED searched
   /\ UNCHANGED runner_vars
   /\ UNCHANGED sampling_vars
   /\ UNCHANGED call_vars


\* ------------------------------------------------------------------------
\* BruteForceOptimizer::optimize and parallel_search
\* ------------------------------------------------------------------------

\* the comparison without its None arm: only a lighter rocket replaces
is_better_lighter_only(kept, mass) == kept.some /\ mass < kept.total_mass

\* the comparison against the record kept so far: nothing kept, or strictly
\* lighter
is_better(kept, mass) == ~kept.some \/ mass < kept.total_mass

\* a lock that never makes a worker wait
MutexFree_always(holder) == TRUE

\* Mutex::lock can return: no worker holds the mutex
MutexFree(holder) == holder = 0

\* the chunks of a batch of n configurations: the first k to one worker, the
\* rest to the other, each taken in order
Chunks(n, k) ==
   [w \in Workers |->
      LET first == IF w = 1 THEN 1 ELSE k + 1
          last == IF w = 1 THEN k ELSE n
      IN  [pc |-> IF first > last THEN "done" ELSE "eval",
           next |-> first, last |-> last, rocket |-> NoRocket,
           total_mass |-> 0]]

\* parallel_search is entered with a batch: a fresh record behind the mutex,
\* the batch split between the workers
StartSearch(batch) ==
   /\ configs' = batch
   /\ guard' = NoBest
   /\ lock' = 0
   /\ \E k \in 0 .. Len(batch) : workers' = Chunks(Len(batch), k)

\* the head of optimize(): validity, then the range of stage counts
BruteForceStart ==
   /\ optimizer = "BruteForce"
   /\ pc = "validate"
   /\ IF ~is_valid(problem) THEN
         Return(InvalidProblem) /\ UNCHANGED stage_count
      ELSE
         /\ pc' = "coarse"
         /\ stage_count' = IF problem.stage_count = None THEN 1
                           ELSE problem.stage_count
         /\ UNCHANGED result
   /\ UNCHANGED << entry, optimizer, problem, run_result, best,
                   progress_counter >>
   /\ UNCHANGED analytical_vars
   /\ UNCHANGED search_vars
   /\ UNCHANGED searched
   /\ UNCHANGED runner_vars
   /\ UNCHANGED sampling_vars
   /\ UNCHANGED call_vars

\* the last stage count when a fixed stage count is not looked at
max_stage_count_unfixed == problem.constraints.max_stages

\* the last stage count of the coarse loop
max_stage_count ==
   IF problem.stage_count = None THEN problem.constraints.max_stages
   ELSE problem.stage_count

\* the coarse loop hands the configurations of one stage count to
\* parallel_search
CoarseSearch ==
   /\ optimizer = "BruteForce"
   /\ pc = "coarse"
   /\ StartSearch(generate_configurations(problem, stage_count,
         propellant_grid(coarse_steps, min_propellant_kg, max_propellant_kg)))
   /\ pc' = "coarse_search"
   /\ searched' = Append(searched, stage_count)
   /\ UNCHANGED << entry, optimizer, problem, result, run_result >>
   /\ UNCHANGED analytical_vars
   /\ UNCHANGED brute_force_vars
   /\ UNCHANGED runner_vars
   /\ UNCHANGED sampling_vars
   /\ UNCHANGED call_vars

\* worker w is done with its configuration and takes the next of its chunk
Advance(w) ==
   LET me == workers[w]
   IN  [me EXCEPT !.pc = IF me.next + 1 > me.last THEN "done" ELSE "eval",
                  !.next = me.next + 1,
                  !.rocket = NoRocket,
                  !.total_mass = 0]

\* the closure up to the lock: the counter, try_build_rocket, the delta-v test
Evaluate(w) ==
   /\ pc \in { "coarse_search", "refine_search" }
   /\ workers[w].pc = "eval"
   /\ progress_counter' = progress_counter + 1
   /\ LET rocket == try_build_rocket(configs[workers[w].next],
                                     problem.payload, problem.constraints)
      IN  IF ReachesTarget(rocket, problem)
          THEN workers' = [workers EXCEPT ![w].pc = "lock",
                                          ![w].rocket = rocket,
                                          ![w].total_mass = total_mass(rocket)]
          ELSE workers' = [workers EXCEPT ![w] = Advance(w)]
   /\ UNCHANGED << entry, optimizer, problem, pc, result, run_result, best,
                   stage_count, configs, guard, lock >>
   /\ UNCHANGED analytical_vars
   /\ UNCHANGED searched
   /\ UNCHANGED runner_vars
   /\ UNCHANGED sampling_vars
   /\ UNCHANGED call_vars

\* best.lock(): the worker waits until the mutex is free and takes it
Lock(w) ==
   /\ pc \in { "coarse_search", "refine_search" }
   /\ workers[w].pc = "lock"
   /\ MutexFree(lock)
   /\ lock' = w
   /\ workers' = [workers EXCEPT ![w].pc = "compare"]
   /\ UNCHANGED << entry, optimizer, problem, pc, result, run_result, configs,
                   guard >>
   /\ UNCHANGED analytical_vars
   /\ UNCHANGED brute_force_vars
   /\ UNCHANGED searched
   /\ UNCHANGED runner_vars
   /\ UNCHANGED sampling_vars
   /\ UNCHANGED call_vars

\* is_better is computed from the record; when it is false the guard is
\* dropped
Compare(w) ==
   /\ pc \in { "coarse_search", "refine_search" }
   /\ workers[w].pc = "compare"
   /\ IF is_better(guard, workers[w].total_mass)
      THEN /\ workers' = [workers EXCEPT ![w].pc = "write"]
           /\ UNCHANGED lock
      ELSE /\ workers' = [workers EXCEPT ![w] = Advance(w)]
           /\ lock' = 0
   /\ UNCHANGED << entry, optimizer, problem, pc, result, run_result, configs,
                   guard >>
   /\ UNCHANGED analytical_vars
   /\ UNCHANGED brute_force_vars
   /\ UNCHANGED searched
   /\ UNCHANGED runner_vars
   /\ UNCHANGED sampling_vars
   /\ UNCHANGED call_vars

\* *guard = Some((rocket, total_mass)), and the guard is dropped
Write(w) ==
   /\ pc \in { "coarse_search", "refine_search" }
   /\ workers[w].pc = "write"
   /\ guard' = SomeBest(workers[w].rocket, workers[w].total_mass)
   /\ lock' = 0
   /\ workers' = [workers EXCEPT ![w] = Advance(w)]
   /\ UNCHANGED << entry, optimizer, problem, pc, result, run_result, configs >>
   /\ UNCHANGED analytical_vars
   /\ UNCHANGED brute_force_vars
   /\ UNCHANGED searched
   /\ UNCHANGED runner_vars
   /\ UNCHANGED sampling_vars
   /\ UNCHANGED call_vars

\* every worker has finished its chunk: for_each returns
Joined == \A w \in Workers : workers[w].pc = "done"


\* parallel_search returns the record to the coarse loop, which keeps it when
\* it is better, and goes on to the next stage count or to the refinement
CoarseJoin ==
   /\ optimizer = "BruteForce"
   /\ pc = "coarse_search"
   /\ Joined
   /\ best' = IF guard.some /\ is_better(best, guard.total_mass)
              THEN guard ELSE best
   /\ IF stage_count < max_stage_count
      THEN pc' = "coarse" /\ stage_count' = stage_count + 1
      ELSE pc' = "refine" /\ UNCHANGED stage_count
   /\ UNCHANGED << entry, optimizer, problem, result, run_result,
                   progress_counter >>
   /\ UNCHANGED analytical_vars
   /\ UNCHANGED search_vars
   /\ UNCHANGED searched
   /\ UNCHANGED runner_vars
   /\ UNCHANGED sampling_vars
   /\ UNCHANGED call_vars

\* after the coarse loop: with no best there is nothing to refine and
\* optimize() returns Infeasible; otherwise the counter is reset and
\* refine_around_solution hands its configurations to parallel_search
RefineSearch ==
   /\ optimizer = "BruteForce"
   /\ pc = "refine"
   /\ IF ~best.some THEN
         /\ Return(Infeasible)
         /\ UNCHANGED progress_counter
         /\ UNCHANGED search_vars
      ELSE
         /\ progress_counter' = 0
         /\ StartSearch(refine_configurations(problem, best.rocket))
         /\ pc' = "refine_search"
         /\ UNCHANGED result
   /\ UNCHANGED << entry, optimizer, problem, run_result, best, stage_count >>
   /\ UNCHANGED analytical_vars
   /\ UNCHANGED searched
   /\ UNCHANGED runner_vars
   /\ UNCHANGED sampling_vars
   /\ UNCHANGED call_vars

\* a variant of the refinement's test that takes any refined record
refined_is_better_always(kept, refined_mass) == TRUE

\* the test of the refinement phase: refined_mass < *best_mass
refined_is_better(kept, refined_mass) == refined_mass < kept.total_mass

\* the refined record replaces the best when it is strictly lighter, and
\* optimize() returns the solution
RefineJoin ==
   /\ optimizer = "BruteForce"
   /\ pc = "refine_search"
   /\ Joined
   /\ best' = IF guard.some /\ refined_is_better(best, guard.total_mass)
              THEN guard ELSE best
   /\ Return(Ok(Solution_with_metadata(best'.rocket, problem.target_delta_v,
                                       progress_counter, "BruteForce")))
   /\ UNCHANGED << entry, optimizer, problem, run_result, stage_count,
                   progress_counter >>
   /\ UNCHANGED analytical_vars
   /\ UNCHANGED search_vars
   /\ UNCHANGED searched
   /\ UNCHANGED runner_vars
   /\ UNCHANGED sampling_vars
   /\ UNCHANGED call_vars

\* ------------------------------------------------------------------------
\* The optimizers as functions of the problem: what optimize() returns when
\* it is called inside a Monte Carlo sample
\* ------------------------------------------------------------------------

\* optimize() does not return: an engine-count loop repeats a count
Spinning == [kind |-> "Spinning"]

RECURSIVE engine_count_loop(_, _, _, _, _, _)
\* one engine-count loop of AnalyticalOptimizer::optimize from engine_count
\* on; turns_left counts the engine counts not yet tried, and a loop that
\* has tried them all never breaks
engine_count_loop(p, payload_above, min_twr, is_first_stage, engine_count, turns_left) ==
   LET c == p.constraints
       engine == single_engine(p)
       propellant ==
          calculate_stage_propellant(dv_per_stage(p.target_delta_v), engine,
             engine_count, c.structural_ratio, payload_above)
       needed_engines ==
          determine_engine_count(engine, propellant.mass, c.structural_ratio,
             payload_above, min_twr, c.max_engines_per_stage, is_first_stage)
   IN  IF propellant.err THEN [kind |-> "Infeasible"]
       ELSE IF needed_engines = 0 THEN [kind |-> "Infeasible"]
       ELSE IF needed_engines = engine_count
       THEN [kind |-> "Break", engine_count |-> engine_count,
             propellant |-> propellant.mass]
       ELSE IF turns_left = 0 THEN [kind |-> "Spinning"]
       ELSE engine_count_loop(p, payload_above, min_twr, is_first_stage,
                              needed_engines, turns_left - 1)

\* the tail of AnalyticalOptimizer::optimize, from the two stages on
analytical_assemble(p, first_stage, second_stage) ==
   LET rocket == Rocket_new(<< first_stage, second_stage >>, p.payload)
       solution == Solution_with_metadata(rocket, p.target_delta_v, 1,
                                          "Analytical")
   IN  IF ~validate_twr(rocket, p.constraints.min_stage_twr, TRUE)
       THEN Infeasible
       ELSE IF solution.margin < margin_tolerance THEN Infeasible
       ELSE Ok(solution)

\* AnalyticalOptimizer::optimize
analytical_optimize(p) ==
   LET c == p.constraints
       check == analytical_precheck(p)
       upper == engine_count_loop(p, p.payload, c.min_stage_twr, FALSE, 1,
                                  c.max_engines_per_stage)
       second_stage == with_structural_ratio(single_engine(p),
                          upper.engine_count, upper.propellant,
                          c.structural_ratio)
       lower == engine_count_loop(p, wet_mass(second_stage) + p.payload,
                                  c.min_liftoff_twr, TRUE, 1,
                                  c.max_engines_per_stage)
       first_stage == with_structural_ratio(single_engine(p),
                         lower.engine_count, lower.propellant,
                         c.structural_ratio)
   IN  IF check = "InvalidProblem" THEN InvalidProblem
       ELSE IF check = "Unsupported" THEN Unsupported
       ELSE IF upper.kind # "Break" THEN [kind |-> upper.kind]
       ELSE IF lower.kind # "Break" THEN [kind |-> lower.kind]
       ELSE analytical_assemble(p, first_stage, second_stage)

\* parallel_search: the records it can end with. A rocket of the batch that
\* passes the TWR checks, reaches the target and has the smallest total mass
\* is kept, whichever of them takes the lock first; None without one
parallel_search(p, batch) ==
   LET built == { try_build_rocket(batch[i], p.payload, p.constraints) :
                     i \in 1 .. Len(batch) }
       feasible == { rocket \in built : ReachesTarget(rocket, p) }
       lightest == { rocket \in feasible :
                       \A other \in feasible :
                          total_mass(rocket) <= total_mass(other) }
   IN  IF feasible = {} THEN { NoBest }
       ELSE { SomeBest(rocket, total_mass(rocket)) : rocket \in lightest }

RECURSIVE coarse_search(_, _, _, _)
\* the coarse loop of BruteForceOptimizer::optimize from stage count n to
\* last: the values best can have after it
coarse_search(p, n, last, kept) ==
   IF n > last THEN kept
   ELSE coarse_search(p, n + 1, last,
           { IF found.some /\ is_better(before, found.total_mass)
             THEN found ELSE before :
                before \in kept,
                found \in parallel_search(p,
                   generate_configurations(p, n,
                      propellant_grid(coarse_steps, min_propellant_kg,
                                      max_propellant_kg))) })

\* the refinement phase and the return of BruteForceOptimizer::optimize for
\* one value of best
refine_and_return(p, coarse) ==
   IF ~coarse.some THEN { Infeasible }
   ELSE LET batch == refine_configurations(p, coarse.rocket)
        IN  { Ok(Solution_with_metadata(
                    (IF refined.some
                        /\ refined_is_better(coarse, refined.total_mass)
                     THEN refined ELSE coarse).rocket,
                    p.target_delta_v, Len(batch), "BruteForce")) :
                 refined \in parallel_search(p, batch) }

\* BruteForceOptimizer::optimize: the results it can return
brute_force_optimize(p) ==
   IF ~is_valid(p) THEN { InvalidProblem }
   ELSE UNION { refine_and_return(p, coarse) :
                   coarse \in coarse_search(p,
                      IF p.stage_count = None THEN 1 ELSE p.stage_count,
                      IF p.stage_count = None THEN p.constraints.max_stages
                      ELSE p.stage_count,
                      { NoBest }) }

\* ------------------------------------------------------------------------
\* MonteCarloRunner::run
\* ------------------------------------------------------------------------

\* MonteCarloRunner::optimize_problem: the optimizer a problem goes to (the
\* brute-force optimizer it builds searches the grid configured above, where
\* the program uses BruteForceOptimizer::default())
optimize_problem(p) ==
   IF is_single_engine(p) /\ p.stage_count = 2
   THEN "Analytical" ELSE "BruteForce"

\* what optimize_problem can return for the problem of a sample
optimize_sample(p) ==
   IF optimize_problem(p) = "Analytical" THEN { analytical_optimize(p) }
   ELSE brute_force_optimize(p)

\* the head of run(): validity, then the nominal optimization is started
MonteCarloRun ==
   /\ entry = "MonteCarlo"
   /\ pc = "run"
   /\ IF ~is_valid(problem) THEN
         /\ run_result' = InvalidProblem
         /\ pc' = "done"
         /\ UNCHANGED optimizer
      ELSE
         /\ optimizer' = optimize_problem(problem)
         /\ pc' = "validate"
         /\ UNCHANGED run_result
   /\ UNCHANGED << entry, problem, result >>
   /\ UNCHANGED analytical_vars
   /\ UNCHANGED brute_force_vars
   /\ UNCHANGED search_vars
   /\ UNCHANGED searched
   /\ UNCHANGED runner_vars
   /\ UNCHANGED sampling_vars
   /\ UNCHANGED call_vars

\* MonteCarloResults, as run() fills it
MonteCarloResults(dv_samples, m_samples, n_successes, n_total, n_failures, target, nominal) ==
   [kind |-> "Ok", delta_v_samples |-> dv_samples, mass_samples |-> m_samples,
    successes |-> n_successes, total_runs |-> n_total,
    failures |-> n_failures, target_delta_v |-> target,
    nominal_solution |-> nominal]

\* MonteCarloResults::success_probability, in thousandths
success_probability(results) ==
   IF results.total_runs = 0 THEN 0
   ELSE FDiv(results.successes * 1000, results.total_runs)

\* the ranges of 0 .. n of two workers: the first k samples to one, the rest
\* to the other
SampleChunks(n, k) ==
   [w \in Workers |->
      LET first == IF w = 1 THEN 1 ELSE k + 1
          last == IF w = 1 THEN k ELSE n
      IN  [pc |-> IF first > last THEN "done" ELSE "sample",
           next |-> first, last |-> last, ok |-> FALSE, dv |-> 0, mass |-> 0]]

\* the nominal optimization has returned: its error is run()'s error; with
\* zero uncertainty its solution is the only sample; otherwise the samples
\* are handed to the workers
MonteCarloNominal ==
   /\ entry = "MonteCarlo"
   /\ pc = "returned"
   /\ IF result.kind # "Ok" THEN
         /\ run_result' = result
         /\ pc' = "done"
         /\ UNCHANGED samplers
      ELSE IF is_zero(uncertainty) THEN
         /\ run_result' =
               MonteCarloResults(
                  << total_delta_v(result.solution.rocket) >>,
                  << total_mass(result.solution.rocket) >>,
                  1, 1, 0, problem.target_delta_v, result.solution)
         /\ pc' = "done"
         /\ UNCHANGED samplers
      ELSE
         /\ \E k \in 0 .. iterations : samplers' = SampleChunks(iterations, k)
         /\ pc' = "sampling"
         /\ UNCHANGED run_result
   /\ UNCHANGED << entry, optimizer, problem, result, searched >>
   /\ UNCHANGED << delta_v_samples, mass_samples, successes, failures,
                   completed >>
   /\ UNCHANGED analytical_vars
   /\ UNCHANGED brute_force_vars
   /\ UNCHANGED search_vars
   /\ UNCHANGED runner_vars
   /\ UNCHANGED call_vars

\* what a step of a sample leaves alone: the nominal problem, the nominal
\* solution and the optimizers' own state
SampleFrame ==
   /\ UNCHANGED << entry, optimizer, problem, pc, result, run_result,
                   searched >>
   /\ UNCHANGED analytical_vars
   /\ UNCHANGED brute_force_vars
   /\ UNCHANGED search_vars
   /\ UNCHANGED runner_vars
   /\ UNCHANGED call_vars

\* what the match of the closure reads of a result of optimize_problem: its
\* kind and, of a solution, the rocket's delta-v and total mass
sample_result(outcome) ==
   IF outcome.kind = "Ok"
   THEN [kind |-> "Ok", dv |-> total_delta_v(outcome.solution.rocket),
         mass |-> total_mass(outcome.solution.rocket)]
   ELSE [kind |-> outcome.kind]

\* the closure up to the match, for one runner and one nominal problem: the
\* engines and the structural ratio are perturbed, the perturbed problem is
\* built and optimized
sample(u, p) ==
   UNION { { sample_result(outcome) : outcome \in optimize_sample(perturbed) } :
              perturbed \in perturbed_problem(u, p) }

\* the match with its error arm replaced by an unwrap of the result
match_arm_unwrap(outcome) ==
   IF outcome.kind = "Ok" THEN "push_delta_v" ELSE "panicked"

\* the arm of the match the result of optimize_problem takes; a call that
\* never returns takes none
match_arm(outcome) ==
   IF outcome.kind = "Ok" THEN "push_delta_v"
   ELSE IF outcome.kind = "Spinning" THEN "spinning"
   ELSE "failure"

\* a worker runs the closure up to the match
Sample(w) ==
   /\ pc = "sampling"
   /\ samplers[w].pc = "sample"
   /\ \E outcome \in sample(uncertainty, problem) :
         samplers' =
            [samplers EXCEPT ![w] =
               IF outcome.kind = "Ok"
               THEN [@ EXCEPT !.pc = match_arm(outcome), !.ok = TRUE,
                              !.dv = outcome.dv, !.mass = outcome.mass]
               ELSE [@ EXCEPT !.pc = match_arm(outcome)]]
   /\ UNCHANGED << delta_v_samples, mass_samples, successes, failures,
                   completed >>
   /\ SampleFrame

\* Vec::push under a mutex
push(vec, value) == Append(vec, value)

\* a store of 1 where the counter is to be incremented
store_one(counter) == 1

\* AtomicU64::fetch_add(1): the value stored
fetch_add(counter) == counter + 1

\* delta_v_samples.lock().unwrap().push(dv)
PushDeltaV(w) ==
   /\ pc = "sampling"
   /\ samplers[w].pc = "push_delta_v"
   /\ delta_v_samples' = push(delta_v_samples, samplers[w].dv)
   /\ samplers' = [samplers EXCEPT ![w].pc = "push_mass"]
   /\ UNCHANGED << mass_samples, successes, failures, completed >>
   /\ SampleFrame

\* mass_samples.lock().unwrap().push(mass)
PushMass(w) ==
   /\ pc = "sampling"
   /\ samplers[w].pc = "push_mass"
   /\ mass_samples' = push(mass_samples, samplers[w].mass)
   /\ samplers' = [samplers EXCEPT ![w].pc = "count"]
   /\ UNCHANGED << delta_v_samples, successes, failures, completed >>
   /\ SampleFrame

\* the success is counted when the sample meets the target
CountSuccess(w) ==
   /\ pc = "sampling"
   /\ samplers[w].pc = "count"
   /\ successes' = IF FGe(samplers[w].dv, problem.target_delta_v)
                    THEN fetch_add(successes) ELSE successes
   /\ samplers' = [samplers EXCEPT ![w].pc = "complete"]
   /\ UNCHANGED << delta_v_samples, mass_samples, failures, completed >>
   /\ SampleFrame

\* the Err arm of the match
CountFailure(w) ==
   /\ pc = "sampling"
   /\ samplers[w].pc = "failure"
   /\ failures' = fetch_add(failures)
   /\ samplers' = [samplers EXCEPT ![w].pc = "complete"]
   /\ UNCHANGED << delta_v_samples, mass_samples, successes, completed >>
   /\ SampleFrame

\* the sample is counted as completed and the worker takes its next one
Complete(w) ==
   /\ pc = "sampling"
   /\ samplers[w].pc = "complete"
   /\ completed' = fetch_add(completed)
   /\ samplers' =
         [samplers EXCEPT ![w] =
            [pc |-> IF @.next + 1 > @.last THEN "done" ELSE "sample",
             next |-> @.next + 1, last |-> @.last, ok |-> FALSE, dv |-> 0,
             mass |-> 0]]
   /\ UNCHANGED << delta_v_samples, mass_samples, successes, failures >>
   /\ SampleFrame

\* for_each has returned: run() returns the accumulated results
MonteCarloJoin ==
   /\ entry = "MonteCarlo"
   /\ pc = "sampling"
   /\ \A w \in Workers : samplers[w].pc = "done"
   /\ run_result' =
         MonteCarloResults(delta_v_samples, mass_samples, successes,
                           iterations, failures, problem.target_delta_v,
                           result.solution)
   /\ pc' = "done"
   /\ UNCHANGED << entry, optimizer, problem, result, searched >>
   /\ UNCHANGED analytical_vars
   /\ UNCHANGED brute_force_vars
   /\ UNCHANGED search_vars
   /\ UNCHANGED runner_vars
   /\ UNCHANGED sampling_vars
   /\ UNCHANGED call_vars

Next ==
   \/ AnalyticalStart
   \/ AnalyticalStage2
   \/ AnalyticalStage1
   \/ AnalyticalAssemble
   \/ BruteForceStart
   \/ CoarseSearch
   \/ \E w \in Workers : Evaluate(w)
   \/ \E w \in Workers : Lock(w)
   \/ \E w \in Workers : Compare(w)
   \/ \E w \in Workers : Write(w)
   \/ CoarseJoin
   \/ RefineSearch
   \/ RefineJoin
   \/ MonteCarloRun
   \/ MonteCarloNominal
   \/ \E w \in Workers : Sample(w)
   \/ \E w \in Workers : PushDeltaV(w)
   \/ \E w \in Workers : PushMass(w)
   \/ \E w \in Workers : CountSuccess(w)
   \/ \E w \in Workers : CountFailure(w)
   \/ \E w \in Workers : Complete(w)
   \/ MonteCarloJoin

Spec == Init /\ [][Next]_vars

\* AnalyticalOptimizer::optimize called on its own, on a valid problem
InitAnalytical == Init /\ entry = "Analytical" /\ is_valid(problem)

\* the steps of AnalyticalOptimizer::optimize
NextAnalytical ==
   \/ AnalyticalStart
   \/ AnalyticalStage2
   \/ AnalyticalStage1
   \/ AnalyticalAssemble

\* optimize() is a sequential function: once called it keeps executing
SpecAnalytical ==
   InitAnalytical /\ [][NextAnalytical]_vars /\ WF_vars(NextAnalytical)


\* ------------------------------------------------------------------------
\* Problem::is_valid on its own, over inputs that include NaN
\* ------------------------------------------------------------------------

\* the problems handed to Problem::is_valid: every field at a good value, at
\* a boundary value, beyond it, and at NaN where the field is an f64
ValidationProblems ==
   { Problem_new(pay, dv, engines, Constraints_new(l, s, m, 6, r), n) :
        pay \in { NaN, 0 - 10, 0, 50 }, dv \in { NaN, 0, 9000 },
        engines \in { << >>, << Raptor2 >> },
        l \in { NaN, 90, 100, 120 }, s \in { NaN, 0, 80 },
        m \in { 0, 1, 2 }, r \in { NaN, 0, 8, 100 },
        n \in { None, 0, 1, 2, 3 } }

\* is_valid() returned Ok(())
Valid == [kind |-> "Valid"]

InitValid ==
   /\ entry = "is_valid"
   /\ optimizer = "none"
   /\ problem \in ValidationProblems
   /\ pc = "validate"
   /\ result = Pending
   /\ run_result = Pending
   /\ stage2_engine_count = 0
   /\ stage2_propellant = 0
   /\ stage1_engine_count = 0
   /\ stage1_propellant = 0
   /\ best = NoBest
   /\ stage_count = 0
   /\ configs = << >>
   /\ guard = NoBest
   /\ lock = 0
   /\ workers = [w \in Workers |-> IdleWorker]
   /\ progress_counter = 0
   /\ searched = << >>
   /\ uncertainty = Uncertainty_none
   /\ iterations = 0
   /\ NotSampling
   /\ NoCall

\* Problem::is_valid is called on the problem
Validate ==
   /\ entry = "is_valid"
   /\ pc = "validate"
   /\ Return(IF is_valid(problem) THEN Valid ELSE InvalidProblem)
   /\ UNCHANGED << entry, optimizer, problem, run_result >>
   /\ UNCHANGED analytical_vars
   /\ UNCHANGED brute_force_vars
   /\ UNCHANGED search_vars
   /\ UNCHANGED searched
   /\ UNCHANGED runner_vars
   /\ UNCHANGED sampling_vars
   /\ UNCHANGED call_vars

NextValid == Validate

SpecValid == InitValid /\ [][NextValid]_vars

\* ------------------------------------------------------------------------
\* Functions called on their own
\* ------------------------------------------------------------------------

\* the optimizers and the runner as constructed, nothing running
NothingRunning ==
   /\ optimizer = "none"
   /\ result = Pending
   /\ run_result = Pending
   /\ stage2_engine_count = 0
   /\ stage2_propellant = 0
   /\ stage1_engine_count = 0
   /\ stage1_propellant = 0
   /\ best = NoBest
   /\ stage_count = 0
   /\ configs = << >>
   /\ guard = NoBest
   /\ lock = 0
   /\ workers = [w \in Workers |-> IdleWorker]
   /\ progress_counter = 0
   /\ searched = << >>
   /\ iterations = 0
   /\ NotSampling

\* the function returns value; it touches nothing but its return value
Returns(value) ==
   /\ ret' = value
   /\ pc' = "returned"
   /\ UNCHANGED << entry, optimizer, problem, result, run_result, args,
                   searched >>
   /\ UNCHANGED analytical_vars
   /\ UNCHANGED brute_force_vars
   /\ UNCHANGED search_vars
   /\ UNCHANGED runner_vars
   /\ UNCHANGED sampling_vars

\* ------------------------------------------------------------------------
\* The selection of the optimizer: select_optimizer of the CLI and the rule
\* of MonteCarloRunner::optimize_problem
\* ------------------------------------------------------------------------

\* OptimizerChoice
OptimizerChoices == { "Auto", "Analytical", "BruteForce" }

\* the automatic selection with a stage count that is not fixed taken for 2
select_optimizer_unfixed_as_two(choice, p) ==
   IF choice = "Analytical" THEN "Analytical"
   ELSE IF choice = "BruteForce" THEN "BruteForce"
   ELSE IF is_single_engine(p) /\ analytical_stage_count(p) = 2
        THEN "Analytical" ELSE "BruteForce"

\* select_optimizer: the user's choice, or by the shape of the problem
select_optimizer(choice, p) ==
   IF choice = "Analytical" THEN "Analytical"
   ELSE IF choice = "BruteForce" THEN "BruteForce"
   ELSE LET is_simple == is_single_engine(p) /\ p.stage_count = 2
        IN  IF is_simple THEN "Analytical" ELSE "BruteForce"

InitSelect ==
   /\ \/ /\ entry = "select_optimizer"
         /\ \E choice \in OptimizerChoices : args = [optimizer |-> choice]
      \/ /\ entry = "optimize_problem"
         /\ args = << >>
   /\ problem \in AnalyticalProblems
   /\ pc = "call"
   /\ ret = << >>
   /\ uncertainty = Uncertainty_none
   /\ NothingRunning

\* the CLI selects the optimizer
SelectOptimizer ==
   /\ entry = "select_optimizer"
   /\ pc = "call"
   /\ Returns(select_optimizer(args.optimizer, problem))

\* the runner selects the optimizer
SelectForSample ==
   /\ entry = "optimize_problem"
   /\ pc = "call"
   /\ Returns(optimize_problem(problem))

NextSelect == SelectOptimizer \/ SelectForSample

SpecSelect == InitSelect /\ [][NextSelect]_vars

\* ------------------------------------------------------------------------
\* percentile_of
\* ------------------------------------------------------------------------

\* percentiles are in tenths of a percent
PercentScale == 10

\* 100.0, the upper end of the clamp
FullPercent == 100 * PercentScale

\* the most samples handed to percentile_of
MaxSamples == 3

\* the values of the samples
SampleValues == { 7800, 9000, 9150 }

\* the sample sets: every order, with and without repeated values
SampleSets ==
   UNION { [1 .. n -> SampleValues] : n \in 0 .. MaxSamples }

\* the percentiles asked for: below 0, above 100, the ends, ties between two
\* ranks, and NaN
Percentiles ==
   { 0 - 100, 0, 1, 100, 250, 333, 500, 667, 750, 975, 999, FullPercent,
     1500, NaN }

\* no problem is in play
NoProblem == Problem_new(0, 0, << >>, SearchConstraints, None)

\* the slice sorted by partial_cmp, equal values kept in their order
RECURSIVE sort_by(_)
sort_by(v) ==
   IF v = << >> THEN << >>
   ELSE LET front == sort_by(SubSeq(v, 1, Len(v) - 1))
            x == v[Len(v)]
            k == Cardinality({ i \in 1 .. Len(front) : front[i] <= x })
        IN  SubSeq(front, 1, k) \o << x >> \o SubSeq(front, k + 1, Len(front))

\* the index computed without rounding: the cast alone, which truncates
idx_truncated(percentile, len) ==
   IF percentile = NaN THEN 0
   ELSE (Clamp(percentile, 0, FullPercent) * (len - 1)) \div FullPercent

\* (p * (len - 1)).round() as usize for p = clamp(percentile) / 100; round
\* takes a half away from zero, and a NaN casts to 0
idx(percentile, len) ==
   IF percentile = NaN THEN 0
   ELSE (2 * Clamp(percentile, 0, FullPercent) * (len - 1) + FullPercent)
           \div (2 * FullPercent)

\* zero-based indexing of a sequence
at(v, i) == v[i + 1]

percentile_of(samples, percentile) ==
   IF samples = << >> THEN 0
   ELSE LET sorted == sort_by(samples)
        IN  at(sorted, Min(idx(percentile, Len(sorted)), Len(sorted) - 1))

InitPercentile ==
   /\ entry = "percentile_of"
   /\ \E samples \in SampleSets, percentile \in Percentiles :
         args = [samples |-> samples, percentile |-> percentile]
   /\ problem = NoProblem
   /\ pc = "call"
   /\ ret = << >>
   /\ uncertainty = Uncertainty_none
   /\ NothingRunning

PercentileOf ==
   /\ entry = "percentile_of"
   /\ pc = "call"
   /\ Returns(percentile_of(args.samples, args.percentile))

NextPercentile == PercentileOf

SpecPercentile == InitPercentile /\ [][NextPercentile]_vars

\* ------------------------------------------------------------------------
\* ParameterSampler and the head of a sample
\* ------------------------------------------------------------------------

\* the samplers: no uncertainty, the default, one parameter alone, and wide
\* uncertainties whose factors leave the clamp's range or turn negative
SamplerUncertainties ==
   { Uncertainty_none, Uncertainty_default, Uncertainty_new(1, 0, 0),
     Uncertainty_new(0, 2, 5), Uncertainty_new(3, 20, 10),
     Uncertainty_new(0, 40, 0) }

\* the nominal structural ratios (Ratio::new takes any f64): NaN, negative,
\* zero, the clamp's ends, values inside and above its range
NominalRatios == { NaN, 0 - 5, 0, 1, 8, 30, 50, 60, 100 }

\* the engines handed to perturb_engine
SamplerEngines == { Raptor2, RaptorVacuum, Merlin1D }

\* the nominal problems of the samples
SamplerProblems == MonteCarloProblems \cup AnalyticalProblems

InitSampler ==
   /\ \/ /\ entry = "perturb_structural_ratio"
         /\ \E nominal \in NominalRatios : args = [nominal |-> nominal]
         /\ problem = NoProblem
      \/ /\ entry = "perturb_engine"
         /\ \E engine \in SamplerEngines : args = [engine |-> engine]
         /\ problem = NoProblem
      \/ /\ entry = "perturbed_problem"
         /\ problem \in SamplerProblems
         /\ args = [problem |-> problem]
   /\ uncertainty \in SamplerUncertainties
   /\ pc = "call"
   /\ ret = << >>
   /\ NothingRunning

PerturbStructuralRatio ==
   /\ entry = "perturb_structural_ratio"
   /\ pc = "call"
   /\ \E ratio \in perturb_structural_ratio(uncertainty, args.nominal) :
         Returns(ratio)

PerturbEngine ==
   /\ entry = "perturb_engine"
   /\ pc = "call"
   /\ \E engine \in perturb_engine(uncertainty, args.engine) : Returns(engine)

\* the closure of run() up to the perturbed problem
PerturbProblem ==
   /\ entry = "perturbed_problem"
   /\ pc = "call"
   /\ \E perturbed \in perturbed_problem(uncertainty, problem) :
         Returns(perturbed)

NextSampler == PerturbStructuralRatio \/ PerturbEngine \/ PerturbProblem

SpecSampler == InitSampler /\ [][NextSampler]_vars

\* ------------------------------------------------------------------------
\* Rocket::validate_twr
\* ------------------------------------------------------------------------

\* the stages of the rockets: light to heavy, one or two engines, an engine
\* without sea-level thrust among them
TwrStages ==
   { with_structural_ratio(engine, engine_count, propellant_mass, 8) :
        engine \in { Raptor2, RaptorVacuum, Merlin1D },
        engine_count \in { 1, 2 },
        propellant_mass \in { 200, 1000, 1800, 5000 } }

\* rockets of one and of two stages
TwrRockets ==
   { Rocket_new(stages, 50) :
        stages \in [1 .. 1 -> TwrStages] \cup [1 .. 2 -> TwrStages] }

\* the thresholds: below, at and above 1.0
MinTwrs == { 50, 80, 100, 120, 150 }

InitTwr ==
   /\ entry = "validate_twr"
   /\ \E rocket \in TwrRockets, min_twr \in MinTwrs, require_liftoff \in BOOLEAN :
         args = [rocket |-> rocket, min_twr |-> min_twr,
                 require_liftoff |-> require_liftoff]
   /\ problem = NoProblem
   /\ uncertainty = Uncertainty_none
   /\ pc = "call"
   /\ ret = << >>
   /\ NothingRunning

ValidateTwr ==
   /\ entry = "validate_twr"
   /\ pc = "call"
   /\ Returns(validate_twr_result(args.rocket, args.min_twr,
                                  args.require_liftoff))

NextTwr == ValidateTwr

SpecTwr == InitTwr /\ [][NextTwr]_vars

\* ------------------------------------------------------------------------
\* AnalyticalOptimizer::calculate_stage_propellant
\* ------------------------------------------------------------------------

\* an engine whose file gives no number for the vacuum Isp
NaNVacuumIsp == Engine_new("NaN-Vacuum-Isp", 2300, 2450, 327, NaN, 16, "LoxCh4")

\* the delta-v asked of a stage: NaN, negative (R < 1), zero (R = 1), small,
\* ordinary, and large enough for the denominator to vanish
StageTargets == { NaN, 0 - 3000, 0, 52, 4590, 9000 }

\* the engines of the stage
StageEngines == { Raptor2, Merlin1D, NaNVacuumIsp }

\* structural ratios (hundredths) and the mass carried (100 kg)
StageRatios == { NaN, 1, 8, 50, 99 }
StagePayloads == { NaN, 50, 1000 }

InitPropellant ==
   /\ entry = "calculate_stage_propellant"
   /\ \E target \in StageTargets, engine \in StageEngines, count \in { 1, 6 }, ratio \in StageRatios, above \in StagePayloads :
         args = [target_dv_per_stage |-> target, engine |-> engine,
                 engine_count |-> count, structural_ratio |-> ratio,
                 payload_above |-> above]
   /\ problem = NoProblem
   /\ uncertainty = Uncertainty_none
   /\ pc = "call"
   /\ ret = << >>
   /\ NothingRunning

CalculateStagePropellant ==
   /\ entry = "calculate_stage_propellant"
   /\ pc = "call"
   /\ Returns(calculate_stage_propellant(args.target_dv_per_stage, args.engine,
                                         args.engine_count,
                                         args.structural_ratio,
                                         args.payload_above))

NextPropellant == CalculateStagePropellant

SpecPropellant == InitPropellant /\ [][NextPropellant]_vars

\* ------------------------------------------------------------------------
\* Properties
\* ------------------------------------------------------------------------

\* optimize() of the brute-force optimizer has returned a solution
BruteForceSolved ==
   optimizer = "BruteForce" /\ pc \in { "returned", "done" } /\ result.kind = "Ok"

\* optimize() of the analytical optimizer has returned a solution
AnalyticalSolved ==
   optimizer = "Analytical" /\ pc \in { "returned", "done" } /\ result.kind = "Ok"

\* the values of the coarse propellant grid
CoarseValues ==
   LET grid == propellant_grid(coarse_steps, min_propellant_kg, max_propellant_kg)
   IN  { grid[i] : i \in 1 .. Len(grid) }

\* C1: every solution the brute-force optimizer returns, from the coarse or
\* the refinement phase, has a liftoff TWR (first stage, sea level, against
\* the rocket's total mass) of at least min_liftoff_twr, and every upper
\* stage has a vacuum TWR at ignition of at least min_stage_twr.
C1_BruteForceMeetsTwr ==
   BruteForceSolved =>
      LET rocket == result.solution.rocket
      IN  /\ liftoff_twr(rocket) >= problem.constraints.min_liftoff_twr
          /\ \A i \in 2 .. Len(rocket.stages) :
                stage_twr(rocket, i) >= problem.constraints.min_stage_twr

\* a two-stage solution that came out of the refinement phase: its first
\* stage's propellant is no value of the coarse grid
C1_Witness ==
   /\ BruteForceSolved
   /\ Len(result.solution.rocket.stages) = 2
   /\ result.solution.rocket.stages[1].propellant_mass \notin CoarseValues

\* C2: every solution returned by the analytical or the brute-force
\* optimizer has a margin of at least 0.
C2_MarginNeverNegative ==
   (pc \in { "returned", "done" } /\ result.kind = "Ok") =>
      result.solution.margin >= 0

\* the rockets of a batch that pass the TWR pruning and reach the target
FeasibleRockets(batch) ==
   { rocket \in { try_build_rocket(batch[i], problem.payload,
                                   problem.constraints) :
                     i \in 1 .. Len(batch) } :
        ReachesTarget(rocket, problem) }

\* parallel_search is over: every worker is through its chunk
SearchEnded == pc \in { "coarse_search", "refine_search" } /\ Joined

\* C3: under every interleaving of the workers, parallel_search ends with a
\* record of a feasible rocket of the batch whose total mass is the minimum
\* over the feasible rockets, and with no record exactly when the batch has
\* no feasible rocket.
C3_SearchKeepsMinimum ==
   SearchEnded =>
      LET feasible == FeasibleRockets(configs)
      IN  IF feasible = {} THEN ~guard.some
          ELSE /\ guard.some
               /\ guard.rocket \in feasible
               /\ guard.total_mass = total_mass(guard.rocket)
               /\ \A rocket \in feasible :
                     guard.total_mass <= total_mass(rocket)

\* a search has ended over a batch with feasible rockets of different
\* masses, split between the two workers
C3_Witness ==
   /\ SearchEnded
   /\ guard.some
   /\ \E r1, r2 \in FeasibleRockets(configs) : total_mass(r1) < total_mass(r2)
   /\ workers[1].last > 0
   /\ workers[1].last < Len(configs)


RECURSIVE SearchInOrder(_, _, _)
\* parallel_search run by one worker that takes the batch in order
SearchInOrder(batch, i, kept) ==
   IF i > Len(batch) THEN kept
   ELSE LET rocket == try_build_rocket(batch[i], problem.payload,
                                       problem.constraints)
        IN  SearchInOrder(batch, i + 1,
               IF ReachesTarget(rocket, problem)
                  /\ is_better(kept, total_mass(rocket))
               THEN SomeBest(rocket, total_mass(rocket)) ELSE kept)

RECURSIVE CoarseInOrder(_, _)
\* the coarse loop from stage count n on, every batch searched in order
CoarseInOrder(n, kept) ==
   IF n > max_stage_count THEN kept
   ELSE LET found ==
               SearchInOrder(
                  generate_configurations(problem, n,
                     propellant_grid(coarse_steps, min_propellant_kg,
                                     max_propellant_kg)),
                  1, NoBest)
        IN  CoarseInOrder(n + 1,
               IF found.some /\ is_better(kept, found.total_mass)
               THEN found ELSE kept)

\* the best optimize() ends with when every batch is searched in order
BestInOrder ==
   LET coarse == CoarseInOrder(IF problem.stage_count = None THEN 1
                               ELSE problem.stage_count, NoBest)
       refined == SearchInOrder(refine_configurations(problem, coarse.rocket),
                                1, NoBest)
   IN  IF ~coarse.some THEN coarse
       ELSE IF refined.some /\ refined.total_mass < coarse.total_mass
       THEN refined ELSE coarse

\* C4: for a fixed problem and configuration the rocket the brute-force
\* optimizer returns is the same in whatever order the workers evaluate and
\* update: it is the rocket a search in order returns.
C4_SameRocketInAnyOrder ==
   BruteForceSolved => result.solution.rocket = BestInOrder.rocket

\* nothing has been generated, evaluated or sampled
NoWorkDone ==
   /\ configs = << >>
   /\ progress_counter = 0
   /\ ~best.some
   /\ ~guard.some
   /\ stage2_engine_count = 0
   /\ stage2_propellant = 0
   /\ stage1_engine_count = 0
   /\ stage1_propellant = 0

\* C5: for a problem that fails is_valid, the analytical optimizer, the
\* brute-force optimizer and the Monte Carlo runner return InvalidProblem
\* before anything is generated, evaluated or sampled; the analytical
\* optimizer returns InvalidProblem, not Unsupported, when the problem is
\* invalid and of an unsupported shape as well.
C5_InvalidRejectedFirst ==
   (entry \in { "Analytical", "BruteForce", "MonteCarlo" }
    /\ ~is_valid(problem)) =>
      /\ NoWorkDone
      /\ result.kind \in { "Pending", "InvalidProblem" }
      /\ run_result.kind \in { "Pending", "InvalidProblem" }
      /\ (entry = "MonteCarlo" => optimizer = "none" /\ result.kind = "Pending")
      /\ (pc = "returned" => result.kind = "InvalidProblem")
      /\ (pc = "done" => run_result.kind = "InvalidProblem")
      /\ pc \in { "validate", "run", "returned", "done" }

\* the analytical optimizer has returned InvalidProblem for a problem that is
\* invalid and has two candidate engines
C5_Witness ==
   /\ entry = "Analytical"
   /\ pc = "returned"
   /\ ~is_valid(problem)
   /\ ~is_single_engine(problem)
   /\ Len(problem.available_engines) > 0
   /\ result.kind = "InvalidProblem"

\* comparisons of f64 that are false when a side is NaN
FGt(a, b) == a # NaN /\ b # NaN /\ a > b

\* the conditions the validation is said to test
StatedValid(p) ==
   /\ FGt(p.payload, 0)
   /\ FGt(p.target_delta_v, 0)
   /\ Len(p.available_engines) > 0
   /\ (p.stage_count = None
       \/ (p.stage_count >= 1 /\ p.stage_count <= p.constraints.max_stages))
   /\ FGe(p.constraints.min_liftoff_twr, 1 * TwrScale)
   /\ FGt(p.constraints.min_stage_twr, 0)
   /\ p.constraints.max_stages >= 1
   /\ FGt(p.constraints.structural_ratio, 0)
   /\ FLt(p.constraints.structural_ratio, 1 * EpsScale)

\* C6: is_valid returns Ok exactly when payload > 0, target delta-v > 0, the
\* engine list is non-empty, the stage count is unset or within
\* [1, max_stages], min_liftoff_twr >= 1.0, min_stage_twr > 0,
\* max_stages >= 1 and 0 < structural_ratio < 1; otherwise an error.
C6_ValidExactlyWhenStated ==
   (entry = "is_valid" /\ pc = "returned") =>
      (result.kind = "Valid" <=> StatedValid(problem))


\* a valid problem of a shape the analytical optimizer rejects: not exactly
\* one engine, or a stage count fixed at another value than 2
UnsupportedShape(p) ==
   \/ Len(p.available_engines) # 1
   \/ (p.stage_count # None /\ p.stage_count # 2)

\* C7: for every valid problem that has not exactly one candidate engine, or
\* whose stage count is fixed at a value other than 2, the analytical
\* optimizer returns Unsupported, never a solution and never Infeasible.
C7_UnsupportedShapeRejected ==
   (optimizer = "Analytical" /\ is_valid(problem) /\ UnsupportedShape(problem)) =>
      /\ result.kind \in { "Pending", "Unsupported" }
      /\ pc \in { "validate", "returned", "done" }
      /\ (pc \in { "returned", "done" } => result.kind = "Unsupported")

\* the analytical optimizer has returned Unsupported for a valid problem with
\* one engine and a stage count fixed at 1
C7_Witness ==
   /\ entry = "Analytical"
   /\ pc = "returned"
   /\ is_valid(problem)
   /\ is_single_engine(problem)
   /\ problem.stage_count = 1
   /\ result.kind = "Unsupported"

\* C8: the analytical optimizer returns a solution only for a problem with a
\* single engine whose stage count is fixed at 2; a problem whose stage count
\* is not fixed is not solved by it.
C8_SolvesOnlyFixedTwoStages ==
   AnalyticalSolved =>
      is_single_engine(problem) /\ problem.stage_count = 2

\* C9: every solution of the analytical optimizer has a liftoff TWR (first
\* stage, sea level, against the total mass) of at least min_liftoff_twr and
\* an upper-stage vacuum TWR, carrying the payload, of at least
\* min_stage_twr.
C9_AnalyticalMeetsTwr ==
   AnalyticalSolved =>
      LET rocket == result.solution.rocket
      IN  /\ liftoff_twr(rocket) >= problem.constraints.min_liftoff_twr
          /\ stage_twr(rocket, 2) >= problem.constraints.min_stage_twr

\* a solution whose first stage needed more than one engine for its TWR
C9_Witness ==
   /\ AnalyticalSolved
   /\ result.solution.rocket.stages[1].engine_count > 1

\* the mass ratio of stage i at ignition with what it carries, in thousandths
EffectiveMassRatio(rocket, i) ==
   LET above == mass_above_stage(rocket, i)
   IN  FDiv((wet_mass(rocket.stages[i]) + above) * RatioScale,
            dry_mass(rocket.stages[i]) + above)

\* the mass ratio required for half of the target inflated by 2%
RequiredRatio(p) ==
   required_mass_ratio(FDiv(FDiv(p.target_delta_v * 102, 100), 2),
                       p.available_engines[1].isp_vac)

\* a and b differ by no more than percent per cent of the larger
Within(a, b, percent) ==
   LET larger == IF a >= b THEN a ELSE b
       smaller == IF a >= b THEN b ELSE a
   IN  (larger - smaller) * 100 <= percent * larger

\* both stages have the required mass ratio, to 2%, and the two stages'
\* delta-v contributions are within 5% of each other
EqualSplit(rocket, p) ==
   /\ \A i \in 1 .. 2 : Within(EffectiveMassRatio(rocket, i), RequiredRatio(p), 2)
   /\ Within(stage_delta_v(rocket, 1), stage_delta_v(rocket, 2), 5)

ResolvedTarget == 6000

StageRange(p) ==
   IF p.stage_count = None THEN 1 .. p.constraints.max_stages
   ELSE { p.stage_count }

\* the coarse grid holds, for some allowed stage count, a configuration that
\* passes the TWR checks and reaches the target
CoarseFeasible ==
   \E n \in StageRange(problem) :
      FeasibleRockets(generate_configurations(problem, n,
         propellant_grid(coarse_steps, min_propellant_kg,
                         max_propellant_kg))) # {}

\* optimize() of the brute-force optimizer has returned
BruteForceReturned ==
   optimizer = "BruteForce" /\ pc \in { "returned", "done" }

\* C11: for a valid problem the brute-force optimizer returns Infeasible
\* exactly when no configuration it evaluated, of any allowed stage count,
\* passes the TWR constraints and reaches the target (the refinement is then
\* never entered); when the searched grid holds such a configuration it
\* returns a solution.
C11_InfeasibleExactlyWhenNoneFeasible ==
   (BruteForceReturned /\ is_valid(problem)) =>
      /\ result.kind \in { "Ok", "Infeasible" }
      /\ (result.kind = "Infeasible" <=> ~CoarseFeasible)
      /\ (result.kind = "Infeasible" =>
             /\ progress_counter > 0
             /\ \A i \in 1 .. Len(configs) :
                   Len(configs[i]) = searched[Len(searched)])
      /\ (CoarseFeasible => result.kind = "Ok")

\* Infeasible has been returned for a valid problem after a search of two
\* stage counts' worth of configurations, every one of them evaluated
C11_Witness ==
   /\ BruteForceReturned
   /\ is_valid(problem)
   /\ result.kind = "Infeasible"
   /\ progress_counter >= 4

\* the configurations of a batch all have an allowed number of stages
BatchInRange ==
   \A i \in 1 .. Len(configs) : Len(configs[i]) \in StageRange(problem)

\* C12: for a valid problem the brute-force optimizer searches the stage
\* counts 1 ..= max_stages, each once and in order, when the stage count is
\* not fixed, and the fixed count alone when it is; every batch, of the
\* refinement too, has an allowed stage count, and so has the solution.
C12_SearchesAllowedStageCounts ==
   (optimizer = "BruteForce" /\ is_valid(problem)) =>
      LET first == IF problem.stage_count = None THEN 1
                   ELSE problem.stage_count
      IN  /\ \A i \in 1 .. Len(searched) : searched[i] = first + i - 1
          /\ \A i \in 1 .. Len(searched) : searched[i] \in StageRange(problem)
          /\ (pc \in { "refine", "refine_search", "returned", "done" } =>
                 { searched[i] : i \in 1 .. Len(searched) }
                    = StageRange(problem))
          /\ BatchInRange
          /\ (BruteForceSolved =>
                 Len(result.solution.rocket.stages) \in StageRange(problem))

\* a two-stage solution of a problem that fixes no stage count, found after
\* the stage counts 1 and 2 were searched and the winner refined
C12_Witness ==
   /\ BruteForceSolved
   /\ problem.stage_count = None
   /\ searched = << 1, 2 >>
   /\ Len(result.solution.rocket.stages) = 2
   /\ Len(configs) > 0
   /\ Len(configs[1]) = 2

\* a single candidate engine and a stage count fixed at 2
SimpleShape(p) == Len(p.available_engines) = 1 /\ p.stage_count = 2

\* C13: the automatic selection picks the analytical optimizer exactly when
\* the problem has a single candidate engine and a stage count fixed at 2,
\* and the brute-force optimizer otherwise; the rule of the runner and the
\* rule of the CLI pick the same optimizer for every problem.
C13_SameAutomaticSelection ==
   /\ (entry = "select_optimizer" /\ pc = "returned"
       /\ args.optimizer = "Auto") =>
         /\ ret = (IF SimpleShape(problem) THEN "Analytical" ELSE "BruteForce")
         /\ ret = optimize_problem(problem)
   /\ (entry = "optimize_problem" /\ pc = "returned") =>
         /\ ret = (IF SimpleShape(problem) THEN "Analytical" ELSE "BruteForce")
         /\ ret = select_optimizer("Auto", problem)

\* the automatic selection of the CLI has picked the brute-force optimizer
\* for a problem with one engine and no fixed stage count
C13_Witness ==
   /\ entry = "select_optimizer"
   /\ pc = "returned"
   /\ args.optimizer = "Auto"
   /\ is_single_engine(problem)
   /\ problem.stage_count = None
   /\ ret = "BruteForce"

\* run() was called with zero uncertainty
ZeroUncertaintyRun == entry = "MonteCarlo" /\ uncertainty = Uncertainty_none

\* C14: with Uncertainty::none() and a feasible nominal problem, run()
\* returns, for every iteration count, the nominal solution's delta-v and
\* mass as the one sample of each kind, total_runs = 1, successes = 1,
\* failures = 0 and a success probability of 1.0, and no sample is run.
C14_ZeroUncertaintyOneSample ==
   ZeroUncertaintyRun =>
      /\ pc # "sampling"
      /\ NotSampling
      /\ (pc = "done" /\ result.kind = "Ok") =>
            LET rocket == result.solution.rocket
            IN  /\ run_result.kind = "Ok"
                /\ run_result.delta_v_samples = << total_delta_v(rocket) >>
                /\ run_result.mass_samples = << total_mass(rocket) >>
                /\ run_result.total_runs = 1
                /\ run_result.successes = 1
                /\ run_result.failures = 0
                /\ success_probability(run_result) = 1000
                /\ run_result.nominal_solution = result.solution

\* run() has returned the single sample although two iterations were asked
\* for
C14_Witness ==
   /\ ZeroUncertaintyRun
   /\ pc = "done"
   /\ iterations >= 2
   /\ run_result.kind = "Ok"
   /\ run_result.total_runs = 1

\* run() was called with non-zero uncertainty and its nominal optimization
\* has succeeded
SamplingRun ==
   /\ entry = "MonteCarlo"
   /\ uncertainty # Uncertainty_none
   /\ is_valid(problem)
   /\ result.kind = "Ok"
   /\ pc \in { "sampling", "done" }

\* the positions of a worker that is running its range or is through it
SamplerPositions ==
   { "sample", "push_delta_v", "push_mass", "count", "failure", "complete",
     "done" }

\* C15: when the nominal optimization succeeds, no failing sample aborts a
\* run with non-zero uncertainty: no worker stops before the end of its
\* range, no error is returned, and run() returns Ok with every sample
\* completed and the failing ones counted in failures.
C15_FailuresDoNotAbort ==
   SamplingRun =>
      /\ \A w \in Workers : samplers[w].pc \in SamplerPositions
      /\ (pc = "sampling" => run_result = Pending)
      /\ (pc = "done" =>
            /\ run_result.kind = "Ok"
            /\ completed = iterations
            /\ run_result.total_runs = iterations
            /\ run_result.failures = failures
            /\ Len(run_result.delta_v_samples) = iterations - failures)

\* run() has returned Ok after its first sample failed and a later one
\* succeeded
C15_Witness ==
   /\ SamplingRun
   /\ pc = "done"
   /\ run_result.kind = "Ok"
   /\ run_result.failures = 1
   /\ Len(run_result.delta_v_samples) = 1
   /\ samplers[1].last = 2

\* the number of workers at one of the positions
At(positions) == Cardinality({ w \in Workers : samplers[w].pc \in positions })

\* the samples the workers are through: each has its range from the end of
\* the range before it
SamplesThrough ==
   (samplers[1].next - 1) + (samplers[2].next - (samplers[1].last + 1))

\* the recorded delta-v samples that meet the target
MeetingTarget(samples) ==
   Cardinality({ i \in 1 .. Len(samples) :
                    FGe(samples[i], problem.target_delta_v) })

\* C16: under every interleaving of the samples no push and no increment
\* is lost: every completed sample is counted once, every sample is a
\* failure or an entry in both vectors, and the successes are the recorded
\* samples that meet the target; when run() returns, total_runs is the
\* iteration count, both vectors hold total_runs - failures entries,
\* successes <= total_runs and the success probability is in [0, 1].
C16_NoLostUpdate ==
   SamplingRun =>
      /\ completed = SamplesThrough
      /\ Len(delta_v_samples) = Len(mass_samples) + At({ "push_mass" })
      /\ failures + Len(mass_samples)
            = completed + At({ "complete" }) + At({ "count" })
      /\ successes + At({ "count" }) >= MeetingTarget(delta_v_samples)
                                          - At({ "push_mass" })
      /\ successes <= MeetingTarget(delta_v_samples)
      /\ (pc = "done" =>
            /\ run_result.total_runs = iterations
            /\ run_result.failures = failures
            /\ Len(run_result.delta_v_samples) = iterations - failures
            /\ Len(run_result.mass_samples) = iterations - failures
            /\ run_result.successes = MeetingTarget(run_result.delta_v_samples)
            /\ run_result.successes <= run_result.total_runs
            /\ success_probability(run_result) >= 0
            /\ success_probability(run_result) <= 1000)

\* run() has returned after two workers took one sample each, one of which
\* failed and one of which met the target
C16_Witness ==
   /\ SamplingRun
   /\ pc = "done"
   /\ samplers[1].last = 1
   /\ iterations = 2
   /\ run_result.failures = 1
   /\ run_result.successes = 1

\* percentile_of has returned
PercentileReturned == entry = "percentile_of" /\ pc = "returned"

\* how many of the samples satisfy the test
CountOf(samples, Test(_)) ==
   Cardinality({ i \in 1 .. Len(samples) : Test(samples[i]) })

\* k is the whole number nearest to percent / 100 * (n - 1), the upper one
\* of two equally near
NearestRank(k, percent, n) ==
   /\ k \in 0 .. n - 1
   /\ 2 * k * FullPercent - FullPercent <= 2 * percent * (n - 1)
   /\ 2 * percent * (n - 1) < 2 * k * FullPercent + FullPercent

\* value stands at zero-based position k of the samples in ascending order
AtRank(value, k, samples) ==
   LET Below(x) == x < value
       NotAbove(x) == x <= value
   IN  /\ \E i \in 1 .. Len(samples) : samples[i] = value
       /\ CountOf(samples, Below) <= k
       /\ k < CountOf(samples, NotAbove)

\* C17: for a non-empty sample set of size n and a percentile p,
\* percentile_of returns the sample at position round(clamp(p, 0, 100) / 100
\* * (n - 1)) of the samples in ascending order: the minimum for p = 0, the
\* maximum for p = 100, always one of the samples, and never less than for a
\* smaller percentile; for an empty sample set it returns 0.
C17_NearestRank ==
   (PercentileReturned /\ args.percentile # NaN) =>
      LET samples == args.samples
          n == Len(samples)
          percent == IF args.percentile < 0 THEN 0
                     ELSE IF args.percentile > FullPercent THEN FullPercent
                     ELSE args.percentile
      IN  IF n = 0 THEN ret = 0
          ELSE /\ \E k \in 0 .. n - 1 :
                     NearestRank(k, percent, n) /\ AtRank(ret, k, samples)
               /\ percent = 0 => \A i \in 1 .. n : ret <= samples[i]
               /\ percent = FullPercent => \A i \in 1 .. n : ret >= samples[i]
               /\ \A lower \in Percentiles \ { NaN } :
                     lower <= args.percentile =>
                        percentile_of(samples, lower) <= ret

\* a percentile halfway between two ranks of three samples that differ has
\* been asked for, and the upper of the two was returned
C17_Witness ==
   /\ PercentileReturned
   /\ Len(args.samples) = 3
   /\ args.percentile = 250
   /\ \A i, j \in 1 .. 3 : i # j => args.samples[i] # args.samples[j]
   /\ args.samples[1] > args.samples[2]
   /\ \E i \in 1 .. 3 :
         /\ ret = args.samples[i]
         /\ \E j \in 1 .. 3 : args.samples[j] < ret
         /\ \E j \in 1 .. 3 : args.samples[j] > ret

\* perturb_structural_ratio has returned
StructuralRatioReturned ==
   entry = "perturb_structural_ratio" /\ pc = "returned"

InClampRange(ratio) ==
   structural_ratio_floor <= ratio /\ ratio <= structural_ratio_ceiling

PerturbedProblemReturned == entry = "perturbed_problem" /\ pc = "returned"

\* the fields of an engine that a perturbation may change
PerturbedFields == { "thrust_sl", "thrust_vac", "isp_sl", "isp_vac" }

\* the two records agree on every field outside the given ones
SameExcept(a, b, fields) ==
   /\ DOMAIN a = DOMAIN b
   /\ \A f \in DOMAIN a \ fields : a[f] = b[f]

\* C19: the perturbed Problem of a sample differs from the nominal Problem
\* only in the thrust and specific-impulse values of its engines and in
\* constraints.structural_ratio: payload, target delta-v, fixed stage count,
\* number and order of the engines, each engine's name, propellant and dry
\* mass, and all other constraints are unchanged, and the nominal Problem
\* is not modified.
C19_OnlyEnginesAndRatioPerturbed ==
   PerturbedProblemReturned =>
      LET nominal == args.problem
      IN  /\ problem = nominal
          /\ SameExcept(ret, nominal, { "available_engines", "constraints" })
          /\ SameExcept(ret.constraints, nominal.constraints,
                        { "structural_ratio" })
          /\ Len(ret.available_engines) = Len(nominal.available_engines)
          /\ \A i \in 1 .. Len(nominal.available_engines) :
                SameExcept(ret.available_engines[i],
                           nominal.available_engines[i], PerturbedFields)

\* a problem with two engines came back with every thrust and specific
\* impulse of its first engine and its structural ratio changed
C19_Witness ==
   /\ PerturbedProblemReturned
   /\ Len(problem.available_engines) = 2
   /\ \A f \in PerturbedFields :
         ret.available_engines[1][f] # problem.available_engines[1][f]
   /\ ret.available_engines[2] # problem.available_engines[2]
   /\ ret.constraints.structural_ratio # problem.constraints.structural_ratio

\* validate_twr has returned
TwrReturned == entry = "validate_twr" /\ pc = "returned"

\* the TWR of stage i (counted from 1) as the statement has it tested:
\* vacuum thrust, but sea-level thrust for the first stage when liftoff is
\* required
StatedTwr(i) ==
   IF i = 1 /\ args.require_liftoff THEN liftoff_twr(args.rocket)
   ELSE stage_twr(args.rocket, i)

\* C20 as stated: validate_twr fails, naming the stage, if a stage's TWR at
\* ignition is below min_twr, the TWR taken with vacuum thrust except that
\* stage 0 is taken with sea-level thrust when require_liftoff is set; it
\* also fails if require_liftoff is set and the stage-0 TWR is below 1.0;
\* otherwise it returns Ok.
C20_SeaLevelForFirstStage ==
   TwrReturned =>
      LET stated_low == { i \in 1 .. Len(args.rocket.stages) :
                            StatedTwr(i) < args.min_twr }
          no_liftoff == args.require_liftoff /\ StatedTwr(1) < 1 * TwrScale
      IN  /\ ret.kind = "Ok" <=> (stated_low = {} /\ ~no_liftoff)
          /\ ret.kind = "InsufficientStageTwr" => ret.stage + 1 \in stated_low

\* C20: when require_liftoff is set and the liftoff TWR (sea-level thrust of
\* stage 0 against the weight of the whole rocket) is below 1.0,
\* validate_twr fails with InsufficientLiftoff; otherwise, if the TWR at
\* ignition of any stage, stage 0 included, taken with vacuum thrust is
\* below min_twr, it fails with InsufficientStageTwr naming the first such
\* stage, its TWR and min_twr; otherwise it returns Ok.
C20_VacuumForEveryStage ==
   TwrReturned =>
      LET rocket == args.rocket
          low == { i \in 1 .. Len(rocket.stages) :
                     stage_twr(rocket, i) < args.min_twr }
      IN  IF args.require_liftoff /\ liftoff_twr(rocket) < 1 * TwrScale
          THEN ret = [kind |-> "InsufficientLiftoff",
                      twr |-> liftoff_twr(rocket), required |-> 1 * TwrScale]
          ELSE IF low # {}
          THEN /\ ret.kind = "InsufficientStageTwr"
               /\ ret.stage + 1 \in low
               /\ \A i \in low : ret.stage + 1 <= i
               /\ ret.twr = stage_twr(rocket, ret.stage + 1)
               /\ ret.required = args.min_twr
          ELSE ret.kind = "Ok"

\* liftoff was required of a rocket of two stages whose first stage has a
\* sea-level TWR below min_twr and a vacuum TWR not below it, and the
\* second stage was named
C20_Witness ==
   /\ TwrReturned
   /\ args.require_liftoff
   /\ Len(args.rocket.stages) = 2
   /\ liftoff_twr(args.rocket) < args.min_twr
   /\ stage_twr(args.rocket, 1) >= args.min_twr
   /\ ret.kind = "InsufficientStageTwr"
   /\ ret.stage = 1

\* an optimizer has returned a solution
OptimizerSolved ==
   /\ optimizer \in { "Analytical", "BruteForce" }
   /\ pc \in { "returned", "done" }
   /\ result.kind = "Ok"

\* C21: no Solution returned by the analytical or the brute-force optimizer
\* uses a vacuum-only engine (zero sea-level thrust or zero sea-level Isp,
\* Engine::is_upper_stage_only) on stage 0, whatever the engine list holds.
C21_NoVacuumOnlyFirstStage ==
   OptimizerSolved =>
      ~is_upper_stage_only(result.solution.rocket.stages[1].engine)

\* calculate_stage_propellant has returned
PropellantReturned == entry = "calculate_stage_propellant" /\ pc = "returned"

\* the required mass ratio is below 1, or at least 1 + 1 / eps
RatioOutOfRange ==
   LET r == required_mass_ratio(args.target_dv_per_stage, args.engine.isp_vac)
       eps == args.structural_ratio
   IN  \/ FLt(r, RatioScale)
       \/ /\ eps # NaN
          /\ FGe(r * eps, RatioScale * EpsScale + RatioScale * eps)

\* C22: calculate_stage_propellant returns Infeasible whenever the required
\* mass ratio R is below 1, the denominator 1 + eps * (1 - R) is zero or
\* negative, or the computed propellant is non-positive, and otherwise a
\* strictly positive, finite propellant mass: what it returns as Ok is
\* never non-positive or undefined.
C22_InfeasibleOrPositive ==
   PropellantReturned =>
      /\ RatioOutOfRange => ret.err
      /\ ~ret.err => FLt(0, ret.mass)

\* one step of the brute-force optimizer that has a best-so-far
BestKept == optimizer = "BruteForce" /\ best.some

\* the step in which optimize() returns after the refinement
RefinementReturns == pc = "refine_search" /\ pc' = "returned"

\* C23: refinement can only improve the result. The best-so-far of the
\* brute-force optimizer, once there is one, stays and is replaced only by a
\* record of strictly lower total mass, in the coarse loop across stage
\* counts and in the refinement, so its total mass never increases; and the
\* Solution returned after the refinement has a total mass no larger than
\* the coarse winner's.
C23_RefinementOnlyImproves ==
   [][ BestKept =>
          /\ best'.some
          /\ best'.total_mass <= best.total_mass
          /\ (best' # best => best'.total_mass < best.total_mass)
          /\ (RefinementReturns =>
                 /\ result'.kind = "Ok"
                 /\ result'.solution.rocket = best'.rocket
                 /\ total_mass(result'.solution.rocket) <= best.total_mass) ]_vars

\* the rockets of the coarse grid, of every allowed stage count, that pass
\* the TWR checks and reach the target
CoarseFeasibleRockets ==
   UNION { FeasibleRockets(generate_configurations(problem, n,
              propellant_grid(coarse_steps, min_propellant_kg,
                              max_propellant_kg))) : n \in StageRange(problem) }

\* a solution has been returned whose rocket came out of the refinement: it
\* is the refined record and is strictly lighter than every feasible rocket
\* of the coarse grid
C23_Witness ==
   /\ BruteForceReturned
   /\ result.kind = "Ok"
   /\ guard.some
   /\ result.solution.rocket = guard.rocket
   /\ \A rocket \in CoarseFeasibleRockets :
         total_mass(result.solution.rocket) < total_mass(rocket)

\* a solution has been returned that is the coarse winner, the refinement
\* having found only a heavier rocket
RefinedHeavierNotTaken ==
   /\ BruteForceReturned
   /\ result.kind = "Ok"
   /\ guard.some
   /\ guard.total_mass > best.total_mass
   /\ result.solution.rocket = best.rocket

RECURSIVE CoarseEvaluated(_)
\* the number of configurations of the coarse batches of the first k stage
\* counts searched
CoarseEvaluated(k) ==
   IF k = 0 THEN 0
   ELSE CoarseEvaluated(k - 1)
        + Len(generate_configurations(problem, searched[k],
                 propellant_grid(coarse_steps, min_propellant_kg,
                                 max_propellant_kg)))

\* C24: the iterations field of a Solution returned by the brute-force
\* optimizer equals the number of configurations evaluated during the whole
\* search: the configurations of the coarse batch of every stage count
\* searched plus the configurations of the refinement batch.
C24_IterationsCountWholeSearch ==
   BruteForceSolved =>
      result.solution.iterations = CoarseEvaluated(Len(searched)) + Len(configs)

\* the engine counts of one step of the analytical optimizer: a loop is
\* entered with one engine, and an iteration never lowers the count, never
\* takes it above max_engines_per_stage, and raises it when the loop goes on
EngineCountStep ==
   LET max_engines == problem.constraints.max_engines_per_stage
   IN  /\ (pc = "validate" /\ pc' = "stage2") => stage2_engine_count' = 1
       /\ (pc = "stage2" /\ pc' = "stage1") => stage1_engine_count' = 1
       /\ pc = "stage2" =>
             /\ stage2_engine_count' >= stage2_engine_count
             /\ stage2_engine_count' <= max_engines
             /\ pc' = "stage2" => stage2_engine_count' > stage2_engine_count
       /\ pc = "stage1" =>
             /\ stage1_engine_count' >= stage1_engine_count
             /\ stage1_engine_count' <= max_engines
             /\ pc' = "stage1" => stage1_engine_count' > stage1_engine_count

\* the stage a loop has left: its propellant is the one solved for the final
\* engine count, and with that count it has the minimum TWR
StageAsSolved(engine_count, propellant_mass, payload_above, min_twr, is_first_stage) ==
   LET c == problem.constraints
       engine == single_engine(problem)
       solved == calculate_stage_propellant(
                    dv_per_stage(problem.target_delta_v), engine,
                    engine_count, c.structural_ratio, payload_above)
   IN  /\ ~solved.err
       /\ propellant_mass = solved.mass
       /\ CountTwr(engine, engine_count, propellant_mass, c.structural_ratio,
                   payload_above, is_first_stage) >= min_twr

\* both loops are left with the stage as solved
LoopsLeftAsSolved ==
   /\ (optimizer = "Analytical" /\ pc \in { "stage1", "assemble" }) =>
         StageAsSolved(stage2_engine_count, stage2_propellant,
                       problem.payload, problem.constraints.min_stage_twr,
                       FALSE)
   /\ (optimizer = "Analytical" /\ pc = "assemble") =>
         StageAsSolved(stage1_engine_count, stage1_propellant,
                       payload_above_stage1,
                       problem.constraints.min_liftoff_twr, TRUE)

\* C25: the engine-count iteration of the analytical optimizer terminates.
\* Each loop starts at one engine, the count never decreases between
\* iterations and never exceeds max_engines_per_stage, and optimize(), once
\* called, returns (a solution or an error); when a loop is left normally
\* the stage has the propellant solved for the final engine count and meets
\* its minimum TWR with that count.
C25_EngineCountLoopsTerminate ==
   /\ [][optimizer = "Analytical" => EngineCountStep]_vars
   /\ []LoopsLeftAsSolved
   /\ (optimizer = "Analytical" /\ pc = "validate") ~> (pc = "returned")

\* a solution has been returned whose upper-stage loop stayed at one engine
\* and whose first-stage loop raised the count to three or more
C25_Witness ==
   /\ AnalyticalSolved
   /\ is_valid(problem)
   /\ stage2_engine_count = 1
   /\ stage1_engine_count > 2
   /\ stage1_engine_count <= problem.constraints.max_engines_per_stage

\* the delta-v and the mass are those of one optimized rocket of a sample
FromOneSample(dv, mass) ==
   \E outcome \in sample(uncertainty, problem) :
      outcome.kind = "Ok" /\ outcome.dv = dv /\ outcome.mass = mass

\* C26: in the results of a run with parallel samples delta_v_samples[i] and
\* mass_samples[i] come from the same sample, the same optimized rocket, for
\* every index i, under every interleaving of the workers.
C26_SamplesPairedByIndex ==
   (SamplingRun /\ pc = "done" /\ run_result.kind = "Ok") =>
      /\ Len(run_result.delta_v_samples) = Len(run_result.mass_samples)
      /\ \A i \in 1 .. Len(run_result.delta_v_samples) :
            FromOneSample(run_result.delta_v_samples[i],
                          run_result.mass_samples[i])

\* C27: every Solution the analytical optimizer returns has a stage count of
\* at most constraints.max_stages.
C27_AnalyticalWithinMaxStages ==
   AnalyticalSolved =>
      Len(result.solution.rocket.stages) <= problem.constraints.max_stages

\* a propellant mass within the optimizer's configured bounds
WithinPropellantBounds(propellant) ==
   propellant >= min_propellant_kg /\ propellant <= max_propellant_kg

\* C28: every propellant mass the brute-force optimizer evaluates, in the
\* coarse phase and in the refinement, lies within [min_propellant_kg,
\* max_propellant_kg], and so does the propellant mass of every stage of a
\* returned Solution.
C28_PropellantWithinBounds ==
   optimizer = "BruteForce" =>
      /\ \A i \in 1 .. Len(configs) : \A k \in 1 .. Len(configs[i]) :
            WithinPropellantBounds(configs[i][k].propellant_kg)
      /\ BruteForceSolved =>
            \A k \in 1 .. Len(result.solution.rocket.stages) :
               WithinPropellantBounds(
                  result.solution.rocket.stages[k].propellant_mass)

\* the workers have been handed their samples and none has been taken
SamplingStarts ==
   /\ SamplingRun
   /\ pc = "sampling"
   /\ completed = 0
   /\ \A w \in Workers : samplers[w].pc \in { "sample", "done" }
   /\ \A w \in Workers : samplers[w].pc = "sample" => samplers[w].next = w

\* C29: every perturbed Problem a Monte Carlo run builds from a valid
\* nominal Problem passes is_valid and goes to the optimizer the nominal
\* Problem goes to, and optimizing it returns a solution or Infeasible,
\* never InvalidProblem or Unsupported; so every counted failure is an
\* Infeasible outcome.
C29_PerturbedProblemsStayValid ==
   SamplingStarts =>
      \A perturbed \in perturbed_problem(uncertainty, problem) :
         /\ is_valid(perturbed)
         /\ optimize_problem(perturbed) = optimize_problem(problem)
         /\ \A outcome \in optimize_sample(perturbed) :
               outcome.kind \in { "Ok", "Infeasible" }

\* a failure has been counted in a run whose samples perturb the
\* structural ratio, one of them to the floor of the clamp
C29_Witness ==
   /\ SamplingRun
   /\ failures = 1
   /\ uncertainty.structural_percent > 0
   /\ \E perturbed \in perturbed_problem(uncertainty, problem) :
         perturbed.constraints.structural_ratio = structural_ratio_floor
   /\ \E perturbed \in perturbed_problem(uncertainty, problem) :
         /\ perturbed.constraints.structural_ratio
               # problem.constraints.structural_ratio
         /\ \E outcome \in optimize_sample(perturbed) :
               outcome.kind = "Infeasible"

\* show_progress, as set by default() and by with_progress(true)
show_progress == TRUE

\* the progress is shown every report_interval configurations: 1000 in the
\* program, scaled down with the batches of the model
report_interval == 2

\* the test of the progress report on the value fetch_add returns
reports_progress(current) ==
   show_progress /\ current % report_interval = 0

\* (current / total_configs) * 100.0, in tenths of a percent
percent(current, total_configs) ==
   FDiv(current * 100 * PercentScale, total_configs)

\* a step of parallel_search that counts a configuration
CountsConfiguration ==
   /\ optimizer = "BruteForce"
   /\ pc \in { "coarse_search", "refine_search" }
   /\ progress_counter' = progress_counter + 1

\* C30: whenever the brute-force optimizer reports progress, the reported
\* percentage, the configurations counted so far over the total of the
\* batch being searched, is between 0 and 100 inclusive, for every stage
\* count of the coarse phase and for the refinement.
C30_ProgressPercentInRange ==
   [][ (CountsConfiguration /\ reports_progress(progress_counter)) =>
          /\ percent(progress_counter, Len(configs)) >= 0
          /\ percent(progress_counter, Len(configs)) <= FullPercent ]_vars

\* the percentage reported in the refinement is within 0 and 100
RefinementPercentInRange ==
   [][ (CountsConfiguration /\ pc = "refine_search"
        /\ reports_progress(progress_counter)) =>
          /\ percent(progress_counter, Len(configs)) >= 0
          /\ percent(progress_counter, Len(configs)) <= FullPercent ]_vars

\* the percentage reported while the first stage count is searched is
\* within 0 and 100
FirstBatchPercentInRange ==
   [][ (CountsConfiguration /\ pc = "coarse_search" /\ Len(searched) = 1
        /\ reports_progress(progress_counter)) =>
          /\ percent(progress_counter, Len(configs)) >= 0
          /\ percent(progress_counter, Len(configs)) <= FullPercent ]_vars

====
